---- MODULE Spec2Model ----
(***************************************************************************)
(* Instruction-level symbolic execution core of SeeWasm/WASEM.             *)
(*                                                                         *)
(* Python objects are modelled with an explicit heap: an execution state   *)
(* holds references to its list/dict/solver objects, so that aliasing      *)
(* between forked states or between a state and a saved call frame is      *)
(* something the model can exhibit.                                        *)
(***************************************************************************)
EXTENDS Integers, Sequences, FiniteSets, TLC

VARIABLES heap, prev, live, ret, last, ghost, budget, dsl_flag, source_type

vars == <<heap, prev, live, ret, last, ghost, budget, dsl_flag, source_type>>

\* ----------------------------------------------------------------- bounds
\* number of instructions emulated in one run
MaxSteps == 3
\* symbolic bit-vectors range over the signed values -MaxBV..MaxBV
MaxBV == 2
\* depth of the operand stack the entry state may start with
MaxInitStack == 3

\* ------------------------------------------------------- symbolic values
\* z3 BitVecVal(n, 32)
BV(n) == [kind |-> "bv", id |-> n]
\* z3 BitVec(name, 32): an unconstrained symbolic bit-vector
BVSym(i) == [kind |-> "bvsym", id |-> i]
\* z3 BoolVal(b)
BoolV(b) == [kind |-> "bool", id |-> IF b THEN 1 ELSE 0]
\* z3 Bool(name): a symbolic boolean
BoolSym(i) == [kind |-> "boolsym", id |-> i]

X == BVSym(0)
P == BoolSym(0)

SymVars == {X, P}
BVDom == (0 - MaxBV)..MaxBV
DomOf(v) == IF v.kind = "boolsym" THEN {0, 1} ELSE BVDom

is_bv(v) == v.kind \in {"bv", "bvsym"}
is_bool(v) == v.kind \in {"bool", "boolsym"}
is_bv_value(v) == v.kind = "bv"

\* ------------------------------------------------- boolean terms (z3 Bool)
\* A simplified boolean term is True, False, or a constraint on one symbol,
\* kept as the set of values of the symbol that satisfy it.
TrueC == [tag |-> "true", var |-> BV(0), allowed |-> {}]
FalseC == [tag |-> "false", var |-> BV(0), allowed |-> {}]
Atom(v, S) == [tag |-> "atom", var |-> v, allowed |-> S]

is_true(c) == c.tag = "true"
is_false(c) == c.tag = "false"

Not(c) ==
    CASE c.tag = "true" -> FalseC
      [] c.tag = "false" -> TrueC
      [] OTHER -> Atom(c.var, DomOf(c.var) \ c.allowed)

\* simplify(op != 0) for a bit-vector, the term itself for a boolean
NeZero(op) ==
    CASE op.kind = "bv" -> IF op.id # 0 THEN TrueC ELSE FalseC
      [] op.kind = "bvsym" -> Atom(op, BVDom \ {0})
      [] op.kind = "bool" -> IF op.id = 1 THEN TrueC ELSE FalseC
      [] OTHER -> Atom(op, {1})

\* the truth value of the operand, as br_if takes it
EqZeroAsTruth(op) ==
    CASE op.kind = "bv" -> IF op.id = 0 THEN FalseC ELSE TrueC
      [] OTHER -> Atom(op, BVDom \ {0})

\* simplify(arg0 == 0)
EqZero(op) ==
    CASE op.kind = "bv" -> IF op.id = 0 THEN TrueC ELSE FalseC
      [] OTHER -> Atom(op, {0})

\* ------------------------------------------------------------------ solver
Assignments == {a \in [SymVars -> BVDom] : \A v \in SymVars : a[v] \in DomOf(v)}

Holds(a, c) ==
    \/ c.tag = "true"
    \/ c.tag = "atom" /\ a[c.var] \in c.allowed

Satisfiable(cs) == \E a \in Assignments : \A i \in 1..Len(cs) : Holds(a, cs[i])

\* satisfiability of (path constraint /\ c), memoised per state
one_time_query_cache(solver, c) ==
    IF Satisfiable(Append(solver, c)) THEN "sat" ELSE "unsat"

\* --------------------------------------------------------------- the heap
\* dict objects: functions on a finite set of keys
DictSet(d, k, v) == [i \in (DOMAIN d) \cup {k} |-> IF i = k THEN v ELSE d[i]]

StackOf(h, sid) == h.stacks[h.states[sid].symbolic_stack]
LocalOf(h, sid) == h.locals[h.states[sid].local_var]
SolverOf(h, sid) == h.solvers[h.states[sid].solver]
CtxOf(h, sid) == h.ctxs[h.states[sid].context_stack]

Top(h, sid) == StackOf(h, sid)[Len(StackOf(h, sid))]

\* list.pop() n times / list.append(v): the list object is changed in place
PopN(h, sid, n) ==
    [h EXCEPT !.stacks[h.states[sid].symbolic_stack] =
        SubSeq(@, 1, Len(@) - n)]
Push(h, sid, v) ==
    [h EXCEPT !.stacks[h.states[sid].symbolic_stack] = Append(@, v)]
\* dict[k] = v on the state's dict object
LocalSet(h, sid, k, v) ==
    [h EXCEPT !.locals[h.states[sid].local_var] = DictSet(@, k, v)]
\* a solver that keeps only the constraint added last
SolverReplace(h, sid, c) ==
    [h EXCEPT !.solvers[h.states[sid].solver] = <<c>>]

\* solver.add(c)
SolverAdd(h, sid, c) ==
    [h EXCEPT !.solvers[h.states[sid].solver] = Append(@, c)]

NoEdge == [kind |-> "none", target |-> 0]
CondTrue(t) == [kind |-> "conditional_true", target |-> t]
CondFalse0 == [kind |-> "conditional_false", target |-> 0]
SetEdge(h, sid, e) == [h EXCEPT !.states[sid].edge_type = e]

\* ------------------------------------------------------- emulate's result
RetList(s) == [kind |-> "list", states |-> s, exc |-> ""]
RetNone == [kind |-> "none", states |-> <<>>, exc |-> ""]
RetRaise(e) == [kind |-> "raise", states |-> <<>>, exc |-> e]

Result(h, r) == [heap |-> h, ret |-> r]

\* ---------------------------------------------------------- deep copying
\* copy.deepcopy(state): a new state object with its own stack, locals,
\* solver and context stack; every saved frame gets its own copies too.
DeepCopyFrames(h, sid) ==
    LET fr == CtxOf(h, sid)
        ns == Len(h.stacks) + 1
        nl == Len(h.locals) + 1
    IN [i \in 1..Len(fr) |->
            [fr[i] EXCEPT !.stack = ns + i, !.local = nl + i]]

deepcopy(h, sid) ==
    LET st == h.states[sid]
        fr == CtxOf(h, sid)
        new == [st EXCEPT !.symbolic_stack = Len(h.stacks) + 1,
                          !.local_var = Len(h.locals) + 1,
                          !.solver = Len(h.solvers) + 1,
                          !.context_stack = Len(h.ctxs) + 1]
    IN [states |-> Append(h.states, new),
        stacks |-> h.stacks \o <<StackOf(h, sid)>>
                     \o [i \in 1..Len(fr) |-> h.stacks[fr[i].stack]],
        locals |-> h.locals \o <<LocalOf(h, sid)>>
                     \o [i \in 1..Len(fr) |-> h.locals[fr[i].local]],
        solvers |-> Append(h.solvers, SolverOf(h, sid)),
        ctxs |-> Append(h.ctxs, DeepCopyFrames(h, sid))]

\* a copy that shares the list, dict and solver objects of the original
ShallowCopy(h, sid) == [h EXCEPT !.states = Append(@, h.states[sid])]

\* new_state = copy.deepcopy(state) at a fork point
ForkState(h, sid) == deepcopy(h, sid)

\* --------------------------------------------- constant / variable / drop
\* i32.const n
EmulateConst(h, sid, n) == Result(Push(h, sid, BV(n)), RetList(<<sid>>))

\* a comparison instruction leaves a boolean on the stack
EmulateLogical(h, sid, b) == Result(Push(h, sid, b), RetList(<<sid>>))

\* drop
EmulateDrop(h, sid) == Result(PopN(h, sid, 1), RetList(<<sid>>))

\* get_local op
EmulateGetLocal(h, sid, op) ==
    Result(Push(h, sid, LocalOf(h, sid)[op]), RetList(<<sid>>))

\* set_local op
EmulateSetLocal(h, sid, op) ==
    LET var == Top(h, sid)
    IN Result(LocalSet(PopN(h, sid, 1), sid, op, var), RetList(<<sid>>))

\* a tee_local that consumes the operand it stores
EmulateTeeLocalPop(h, sid, op) ==
    LET var == Top(h, sid)
    IN Result(LocalSet(PopN(h, sid, 1), sid, op, var), RetList(<<sid>>))

\* tee_local op
EmulateTeeLocal(h, sid, op) ==
    LET var == Top(h, sid)
    IN Result(LocalSet(h, sid, op, var), RetList(<<sid>>))

\* ------------------------------------------------------ function table
\* analyzer.func_prototypes: (name, param_str, return_str, type); a
\* param_str such as "i32 i32" is kept as its sequence of type names
FuncProtos == <<
    [name |-> "f0", param_str |-> <<>>, return_str |-> "i32"],
    [name |-> "f1", param_str |-> <<"i32">>, return_str |-> "i32"],
    [name |-> "f2", param_str |-> <<"i32", "i32">>, return_str |-> "i32"],
    [name |-> "g0", param_str |-> <<>>, return_str |-> ""],
    [name |-> "checker$1", param_str |-> <<>>, return_str |-> ""],
    [name |-> "__assert_fail", param_str |-> <<>>, return_str |-> ""],
    [name |-> "checker_init", param_str |-> <<>>, return_str |-> ""],
    [name |-> "putchar", param_str |-> <<"i32">>, return_str |-> "i32"],
    [name |-> "runtime.divideByZeroPanic", param_str |-> <<>>,
     return_str |-> ""],
    [name |-> "fd_close", param_str |-> <<"i32">>, return_str |-> "i32"] >>

TERMINATED_FUNCS == {"__assert_fail", "runtime.divideByZeroPanic"}

\* the characters of a function name
Spelling(name) ==
    CASE name = "f0" ->
           <<"f", "0">>
      [] name = "f1" ->
           <<"f", "1">>
      [] name = "f2" ->
           <<"f", "2">>
      [] name = "g0" ->
           <<"g", "0">>
      [] name = "checker$1" ->
           <<"c", "h", "e", "c", "k", "e", "r", "$", "1">>
      [] name = "__assert_fail" ->
           <<"_", "_", "a", "s", "s", "e", "r", "t", "_", "f", "a", "i",
           "l">>
      [] name = "checker_init" ->
           <<"c", "h", "e", "c", "k", "e", "r", "_", "i", "n", "i", "t">>
      [] name = "putchar" ->
           <<"p", "u", "t", "c", "h", "a", "r">>
      [] name = "runtime.divideByZeroPanic" ->
           <<"r", "u", "n", "t", "i", "m", "e", ".", "d", "i", "v", "i",
           "d", "e", "B", "y", "Z", "e", "r", "o", "P", "a", "n", "i",
           "c">>
      [] name = "fd_close" ->
           <<"f", "d", "_", "c", "l", "o", "s", "e">>
      [] name = "checker" ->
           <<"c", "h", "e", "c", "k", "e", "r">>

\* str.startswith(prefix)
StartsWith(str, prefix) ==
    /\ Len(str) >= Len(prefix)
    /\ SubSeq(str, 1, Len(prefix)) = prefix

\* readable_callee_func_name.startswith("checker")
StartsWithChecker(name) == StartsWith(Spelling(name), Spelling("checker"))

\* str.split(sep): the pieces of str between occurrences of sep
RECURSIVE SplitOn(_, _)
SplitOn(str, sep) ==
    IF \A i \in 1..Len(str) : str[i] # sep
    THEN <<str>>
    ELSE LET k == CHOOSE i \in 1..Len(str) :
                      /\ str[i] = sep
                      /\ \A j \in 1..(i - 1) : str[j] # sep
         IN <<SubSeq(str, 1, k - 1)>>
              \o SplitOn(SubSeq(str, k + 1, Len(str)), sep)

Digits == {"0", "1", "2", "3", "4", "5", "6", "7", "8", "9"}

\* int(str) succeeds: an optional sign and at least one decimal digit
IntLiteral(str) ==
    LET body == IF str # <<>> /\ str[1] \in {"+", "-"}
                THEN Tail(str) ELSE str
    IN body # <<>> /\ \A i \in 1..Len(body) : body[i] \in Digits

\* functions with a hand-written model, per source language
MODELED_FUNCS ==
    [c |-> {"__small_printf", "abs", "atof", "atoi", "exp", "getchar",
            "iprintf", "printf", "putchar", "puts", "scanf", "swap",
            "system", "emscripten_resize_heap", "fopen", "vfprintf",
            "open", "exit", "setlocale", "hard_locale", "strstr"},
     go |-> {"fmt.Scanf", "fmt.Printf", "runtime.divideByZeroPanic",
             "runtime.lookupPanic", "runtime.nilPanicruntime.slicePanic",
             "runtime.sliceToArrayPointerPanic", "runtime.unsafeSlicePanic",
             "runtime.chanMakePanic", "runtime.negativeShiftPanic",
             "runtime.blockingPanic", "runtime.calculateHeapAddresses",
             "memset", "runtime.alloc", "memcpy", "syscall/js.valueGet",
             "runtime.putchar"},
     rust |-> {},
     wasi |-> {"args_sizes_get", "args_get", "environ_sizes_get",
               "fd_advise", "fd_fdstat_get", "fd_tell", "fd_seek",
               "fd_close", "fd_read", "fd_write", "proc_exit",
               "fd_prestat_get", "fd_prestat_dir_name", "path_open"}]

is_modeled(func_name, specify_lang) ==
    func_name \in MODELED_FUNCS[specify_lang]

\* Configuration.get_source_type()
SourceTypes == {"c", "go", "rust"}

\* str.split(' '): the empty string splits into one empty token
Split(param_str) == IF param_str = <<>> THEN <<"">> ELSE param_str

\* basic blocks a call instruction may sit in (state.instr.cur_bb)
Blocks == {"block_a", "block_b"}

\* ------------------------------------------------------------ call frames
\* Step 1 of store_context: the number of operands popped for the callee
NumArg(param_str) == IF param_str # <<>> THEN Len(Split(param_str)) ELSE 0

\* arg = [stack.pop() for _ in range(num_arg)]
PoppedArgs(stack, num_arg) ==
    [j \in 1..num_arg |-> stack[Len(stack) - (j - 1)]]

\* Step 3: local_var[num_arg - 1 - x] = arg[x]
AssignArgs(d, arg, num_arg) ==
    [i \in (DOMAIN d) \cup (0..(num_arg - 1)) |->
        IF i < num_arg THEN arg[num_arg - i] ELSE d[i]]

\* for x in range(num_arg, len(local_var)): local_var.pop(x), KeyError ignored
ClearLocals(d, num_arg) ==
    LET n == Cardinality(DOMAIN d)
    IN [i \in (DOMAIN d) \ (num_arg..(n - 1)) |-> d[i]]

\* a frame that refers to the state's own list and dict objects
SaveFrameAlias(h, sid, return_str, cur_bb) ==
    LET st == h.states[sid]
        frame == [func |-> st.current_func_name,
                  bb |-> cur_bb,
                  stack |-> st.symbolic_stack,
                  local |-> st.local_var,
                  ret |-> (return_str # "")]
    IN [h EXCEPT !.ctxs[st.context_stack] = Append(@, frame)]

\* Step 2: context_stack.append((func, cur_bb, [e for e in stack],
\*                               copy.copy(local_var), bool(return_str)))
SaveFrame(h, sid, return_str, cur_bb) ==
    LET st == h.states[sid]
        frame == [func |-> st.current_func_name,
                  bb |-> cur_bb,
                  stack |-> Len(h.stacks) + 1,
                  local |-> Len(h.locals) + 1,
                  ret |-> (return_str # "")]
    IN [h EXCEPT !.stacks = Append(@, StackOf(h, sid)),
                 !.locals = Append(@, LocalOf(h, sid)),
                 !.ctxs[st.context_stack] = Append(@, frame)]

store_context(h, sid, param_str, return_str, callee_func_name, cur_bb) ==
    LET st == h.states[sid]
        num_arg == NumArg(param_str)
        arg == PoppedArgs(StackOf(h, sid), num_arg)
        h1 == PopN(h, sid, num_arg)
        h2 == SaveFrame(h1, sid, return_str, cur_bb)
        h3 == [h2 EXCEPT !.locals[st.local_var] =
                  ClearLocals(AssignArgs(@, arg, num_arg), num_arg)]
    IN [h3 EXCEPT !.states[sid].current_func_name = callee_func_name]

\* a restore that puts back the caller's stack but keeps the callee's locals
RestoreFrameKeepLocals(h, sid, fr) ==
    [h EXCEPT !.states[sid].current_func_name = fr.func,
              !.states[sid].current_bb_name = fr.bb,
              !.states[sid].symbolic_stack = fr.stack]

\* Step 2 of restore_context: the state takes the frame's objects back
RestoreFrame(h, sid, fr) ==
    [h EXCEPT !.states[sid].current_func_name = fr.func,
              !.states[sid].current_bb_name = fr.bb,
              !.states[sid].symbolic_stack = fr.stack,
              !.states[sid].local_var = fr.local]

\* a pop from the wrong end of the context stack
PopFrameFifo(ctx) == [frame |-> ctx[1], rest |-> SubSeq(ctx, 2, Len(ctx))]

\* context_stack.pop()
PopFrame(ctx) ==
    [frame |-> ctx[Len(ctx)], rest |-> SubSeq(ctx, 1, Len(ctx) - 1)]

\* a return that never hands the callee's value back
PushBackNever(h, sid, require_return, return_val) == h

\* Step 3 of restore_context: push the return value back if required
PushBack(h, sid, require_return, return_val) ==
    IF require_return THEN Push(h, sid, return_val) ELSE h

restore_context(h, sid) ==
    LET st == h.states[sid]
        ctx == CtxOf(h, sid)
        fr == PopFrame(ctx).frame
        h1 == [h EXCEPT !.ctxs[st.context_stack] = PopFrame(ctx).rest]
        return_val == Top(h1, sid)
        h2 == IF fr.ret THEN PopN(h1, sid, 1) ELSE h1
        h3 == RestoreFrame(h2, sid, fr)
        h4 == PushBack(h3, sid, fr.ret, return_val)
    IN IF Len(ctx) = 0
       THEN Result(h, RetRaise("ProcSuccessTermination(0)"))
       ELSE IF fr.ret /\ StackOf(h1, sid) = <<>>
       THEN \* list.pop() on the callee's empty stack, the frame already popped
            Result(h1, RetRaise("IndexError"))
       ELSE Result(h4, RetList(<<sid>>))

\* a hook that switches context like an ordinary internal call
CheckerHookAsCall(h, sid, name) ==
    Result(store_context(h, sid, <<>>, "", name, "block_a"),
           RetList(<<sid>>))

\* the checker branch: idx = int(name.split('$')[1]); states = [state]
CheckerHook(h, sid, name) ==
    LET parts == SplitOn(Spelling(name), "$")
    IN IF Len(parts) < 2
       THEN Result(h, RetRaise("IndexError"))
       ELSE IF ~IntLiteral(parts[2])
       THEN Result(h, RetRaise("ValueError"))
       ELSE Result(h, RetList(<<sid>>))

\* the value a library model leaves on the stack
LibReturn == BV(0)

\* a modeled library function: consumes its arguments by the convention
\* of an internal call, pushes its result if it has one, and leaves the
\* context stack alone
LibraryEmul(h, sid, param_str, return_str) ==
    LET h1 == PopN(h, sid, NumArg(param_str))
    IN Result(IF return_str # "" THEN Push(h1, sid, LibReturn) ELSE h1,
              RetList(<<sid>>))

\* a dispatch that tests the terminating set before the library models
DispatchTerminateFirst(dsl, lang, name) ==
    IF dsl /\ StartsWithChecker(name) THEN "checker"
    ELSE IF name \in TERMINATED_FUNCS THEN "terminate"
    ELSE IF lang = "c" /\ is_modeled(name, "c") THEN "c_lib"
    ELSE IF lang = "go" /\ is_modeled(name, "go") THEN "go_lib"
    ELSE IF lang = "rust" /\ is_modeled(name, "rust") THEN "rust"
    ELSE IF is_modeled(name, "wasi") THEN "wasi"
    ELSE "internal"

\* the dispatch rule deal_with_call applies to a callee: the first branch
\* of the if / elif chain whose condition holds
Dispatch(dsl, lang, name) ==
    IF dsl /\ StartsWithChecker(name) THEN "checker"
    ELSE IF lang = "c" /\ is_modeled(name, "c") THEN "c_lib"
    ELSE IF lang = "go" /\ is_modeled(name, "go") THEN "go_lib"
    ELSE IF lang = "rust" /\ is_modeled(name, "rust") THEN "rust"
    ELSE IF is_modeled(name, "wasi") THEN "wasi"
    ELSE IF name \in TERMINATED_FUNCS THEN "terminate"
    ELSE "internal"

deal_with_call(h, sid, f_offset, cur_bb, dsl, lang) ==
    LET target_func == FuncProtos[f_offset]
        rule == Dispatch(dsl, lang, target_func.name)
    IN CASE rule = "checker" -> CheckerHook(h, sid, target_func.name)
         [] rule \in {"c_lib", "go_lib", "wasi"} ->
              LibraryEmul(h, sid, target_func.param_str,
                          target_func.return_str)
         [] rule = "rust" ->
              \* pass: states is never bound
              Result(h, RetRaise("UnboundLocalError"))
         [] rule = "terminate" -> Result(h, RetRaise("ProcFailTermination(ASSERT_FAIL)"))
         [] OTHER ->
              Result(store_context(h, sid, target_func.param_str,
                                   target_func.return_str, target_func.name,
                                   cur_bb),
                     RetList(<<sid>>))

\* ---------------------------------------------------------- call_indirect
\* Configuration.get_elem_index_to_func(): the element section, function
\* names by table slot; the last one has no prototype
ElemIndexToFunc ==
    [i \in 0..4 |->
        CASE i = 0 -> "f1"
          [] i = 1 -> "g0"
          [] i = 2 -> "__assert_fail"
          [] i = 3 -> "putchar"
          [] OTHER -> "table_only"]

\* analyzer.elements[0]['offset']
ElemOffset == 1

\* BitVecNumRef.as_long(): the unsigned value of a 32-bit constant.  A
\* constant that is negative as a signed number has an unsigned value of
\* 2^31 or more, beyond every table; it is kept as the largest integer.
as_long(v) == IF v.id >= 0 THEN v.id ELSE 2147483647

\* an index taken as concrete whatever it is, a symbol read as the first
\* table slot
TableIndexGuess(op) ==
    [concrete |-> TRUE,
     value |-> IF is_bv_value(op) THEN as_long(op) ELSE ElemOffset]

\* assert is_bv_value(op); op = op.as_long()
TableIndexOf(op) ==
    [concrete |-> is_bv_value(op),
     value |-> IF is_bv_value(op) THEN as_long(op) ELSE 0]

\* a table slot taken without the table's base offset
ElemKeyNoOffset(op, offset) == op

\* elem_index_to_func[op - offset]: the slot looked up
ElemKey(op, offset) == op - offset

\* the offset of the first prototype with that name, -1 if there is none
CalleeFuncOffset(callee_func_name) ==
    LET found == {i \in 1..Len(FuncProtos) :
                     FuncProtos[i].name = callee_func_name}
    IN IF found = {} THEN 0 - 1
       ELSE CHOOSE i \in found : \A j \in found : i <= j

EmulateCallIndirect(h, sid, cur_bb, dsl, lang) ==
    LET op == TableIndexOf(Top(h, sid))
        h1 == PopN(h, sid, 1)
        key == ElemKey(op.value, ElemOffset)
        callee_func_name == ElemIndexToFunc[key]
        callee_func_offset == CalleeFuncOffset(callee_func_name)
        h2 == [h1 EXCEPT !.states[sid].call_indirect_callee =
                  callee_func_name]
    IN IF ~op.concrete
       THEN Result(h1, RetRaise("AssertionError"))
       ELSE IF key \notin DOMAIN ElemIndexToFunc
       THEN Result(h1, RetRaise("LookupError"))
       ELSE IF callee_func_offset = 0 - 1
       THEN \* exit("no valid callee in call_indirect")
            Result(h1, RetRaise("SystemExit"))
       ELSE deal_with_call(h2, sid, callee_func_offset, cur_bb, dsl, lang)

\* ------------------------------------------------ sized bit-vectors (z3)
\* The arithmetic and conversion instructions depend on the width of their
\* operands and on every bit of them.  A constant is kept as its bytes,
\* least significant first, so that 32- and 64-bit values wrap as z3's do.
helper_map ==
    [i32 |-> 32, i64 |-> 64, f32 |-> <<8, 24>>, f64 |-> <<11, 53>>]

NumBytes(size) == size \div 8

\* a constant given by its bytes
Val(size, limbs) == [kind |-> "bvval", size |-> size, limbs |-> limbs]

\* z3 BitVecVal(n, size) for a number n of fewer than 32 bits, negative
\* numbers in two's complement
BitVecVal(n, size) ==
    Val(size, [i \in 1..NumBytes(size) |->
                 IF i <= 4 THEN (n \div (256 ^ (i - 1))) % 256
                 ELSE IF n < 0 THEN 255 ELSE 0])

\* z3 BitVec(name, size)
BitVec(name, size) == [kind |-> "bvvar", size |-> size, name |-> name]

\* an application of a bit-vector operation that simplify() cannot fold
BvTerm(op, size, lhs, rhs) ==
    [kind |-> "bvterm", size |-> size, op |-> op, args |-> <<lhs, rhs>>]

is_sized_bv(v) == v.kind \in {"bvval", "bvvar", "bvterm"}

RECURSIVE AddL(_, _, _)
\* a + b + carry, the carry out of the top byte dropped
AddL(a, b, carry) ==
    IF a = <<>> THEN <<>>
    ELSE LET t == a[1] + b[1] + carry
         IN <<t % 256>> \o AddL(Tail(a), Tail(b), t \div 256)

ZeroL(n) == [i \in 1..n |-> 0]
NotL(a) == [i \in 1..Len(a) |-> 255 - a[i]]
NegL(a) == AddL(NotL(a), ZeroL(Len(a)), 1)

\* a subtraction that stops at zero instead of wrapping
SubLSaturating(a, b) ==
    IF \/ a = b
       \/ \E i \in 1..Len(a) :
             a[i] > b[i] /\ \A j \in (i + 1)..Len(a) : a[j] = b[j]
    THEN AddL(a, NotL(b), 1)
    ELSE ZeroL(Len(a))

\* a - b as a + ~b + 1
SubL(a, b) == AddL(a, NotL(b), 1)

\* the sum of the byte products that land on byte k
Column(a, b, k) ==
    LET Sum[i \in 0..k] ==
            IF i = 0 THEN 0 ELSE Sum[i - 1] + a[i] * b[k + 1 - i]
    IN Sum[k]

RECURSIVE MulFrom(_, _, _, _)
MulFrom(a, b, k, carry) ==
    IF k > Len(a) THEN <<>>
    ELSE LET t == Column(a, b, k) + carry
         IN <<t % 256>> \o MulFrom(a, b, k + 1, t \div 256)

MulL(a, b) == MulFrom(a, b, 1, 0)

\* unsigned a >= b
GeL(a, b) ==
    \/ a = b
    \/ \E i \in 1..Len(a) :
          /\ a[i] > b[i]
          /\ \A j \in (i + 1)..Len(a) : a[j] = b[j]

RECURSIVE MulSmallFrom(_, _, _)
MulSmallFrom(d, t, carry) ==
    IF d = <<>> THEN <<carry>>
    ELSE LET u == d[1] * t + carry
         IN <<u % 256>> \o MulSmallFrom(Tail(d), t, u \div 256)

\* d * t for one byte t, one byte longer than d
MulSmall(d, t) == MulSmallFrom(d, t, 0)

RECURSIVE DigitFrom(_, _, _, _)
\* the largest byte t with d * t <= r, found bit by bit from the top
DigitFrom(d, r, b, t) ==
    IF b < 0 THEN t
    ELSE DigitFrom(d, r, b - 1,
                   IF GeL(r, MulSmall(d, t + 2 ^ b)) THEN t + 2 ^ b ELSE t)

RECURSIVE DivFrom(_, _, _, _, _)
\* long division, one byte of the dividend at a time from the top; the
\* running remainder r is one byte longer than the operands
DivFrom(n, d, k, q, r) ==
    IF k < 1 THEN [q |-> q, r |-> SubSeq(r, 1, Len(n))]
    ELSE LET r1 == <<n[k]>> \o SubSeq(r, 1, Len(n))
             t == DigitFrom(d, r1, 7, 0)
         IN DivFrom(n, d, k - 1, [q EXCEPT ![k] = t],
                    SubL(r1, MulSmall(d, t)))

\* bvudiv and bvurem; a zero divisor gives all ones and the dividend
UDivMod(n, d) ==
    DivFrom(n, d, Len(n), ZeroL(Len(n)), ZeroL(Len(n) + 1))

IsNegL(a) == a[Len(a)] >= 128
AbsL(a) == IF IsNegL(a) THEN NegL(a) ELSE a

\* bvsdiv: the quotient of the magnitudes, negated when the signs differ
SDivL(a, b) ==
    LET q == UDivMod(AbsL(a), AbsL(b)).q
    IN IF IsNegL(a) # IsNegL(b) THEN NegL(q) ELSE q

\* bvsrem: the remainder of the magnitudes with the dividend's sign
SRemL(a, b) ==
    LET r == UDivMod(AbsL(a), AbsL(b)).r
    IN IF IsNegL(a) THEN NegL(r) ELSE r

\* the value of a folded application
FoldL(op, a, b) ==
    CASE op = "bvsub" -> SubL(a, b)
      [] op = "bvadd" -> AddL(a, b, 0)
      [] op = "bvmul" -> MulL(a, b)
      [] op = "bvsdiv" -> SDivL(a, b)
      [] op = "bvudiv" -> UDivMod(a, b).q
      [] op = "bvsrem" -> SRemL(a, b)
      [] op = "bvurem" -> UDivMod(a, b).r

\* simplify(lhs op rhs): folded when both operands are constants
BvApply(op, lhs, rhs) ==
    IF lhs.kind = "bvval" /\ rhs.kind = "bvval"
    THEN Val(lhs.size, FoldL(op, lhs.limbs, rhs.limbs))
    ELSE BvTerm(op, lhs.size, lhs, rhs)

\* ------------------------------------------------ integer arithmetic
\* str(arg) of a z3 boolean
StrOfBool(v) ==
    CASE v.kind = "boolsym" -> "p"
      [] v.kind = "bool" /\ v.id = 1 -> "True"
      [] OTHER -> "False"

\* a boolean operand turned into a 32-bit symbol whatever the instruction
BoolToBitVec32(v, instr_type) ==
    IF is_bool(v) THEN BitVec(StrOfBool(v), helper_map["i32"]) ELSE v

\* if is_bool(arg): arg = BitVec(str(arg), helper_map[instr_type])
BoolToBitVec(v, instr_type) ==
    IF is_bool(v) THEN BitVec(StrOfBool(v), helper_map[instr_type]) ELSE v

\* the z3 operation behind each binary integer instruction
IntBinary ==
    [sub |-> "bvsub", add |-> "bvadd", mul |-> "bvmul", div_s |-> "bvsdiv",
     div_u |-> "bvudiv", rem_s |-> "bvsrem", rem_u |-> "bvurem"]

\* operands taken in the order they were popped
OperandsAsPopped(arg1, arg2) == [lhs |-> arg1, rhs |-> arg2]

\* result = arg2 OP arg1
Operands(arg1, arg2) == [lhs |-> arg2, rhs |-> arg1]

\* a leading/trailing-zero count that is always that of a 32-bit operand
ClzCtzOfI32(instr_type, operand) ==
    BitVecVal(helper_map["i32"], helper_map[instr_type])

\* BitVecVal(helper_map[instr_type], helper_map[instr_type])
ClzCtz(instr_type, operand) ==
    BitVecVal(helper_map[instr_type], helper_map[instr_type])

\* the number of one bits of a byte
Ones(b) ==
    LET Sum[i \in 0..8] ==
            IF i = 0 THEN 0 ELSE Sum[i - 1] + ((b \div (2 ^ (i - 1))) % 2)
    IN Sum[8]

\* a population count that counts the one bits of a constant operand
PopcntCounted(instr_type, operand) ==
    IF operand.kind = "bvval"
    THEN LET Sum[i \in 0..Len(operand.limbs)] ==
                 IF i = 0 THEN 0 ELSE Sum[i - 1] + Ones(operand.limbs[i])
         IN BitVecVal(Sum[Len(operand.limbs)], helper_map[instr_type])
    ELSE BvTerm("popcnt", helper_map[instr_type], operand, operand)

\* BitVecVal(0, helper_map[instr_type])
Popcnt(instr_type, operand) == BitVecVal(0, helper_map[instr_type])

\* do_emulate_arithmetic_int_instruction, for the instruction
\* instr_type.op
EmulateArithInt(h, sid, instr_type, op) ==
    LET s == StackOf(h, sid)
        top == s[Len(s)]
        h1 == PopN(h, sid, 1)
        h2 == PopN(h, sid, 2)
        arg1 == BoolToBitVec(top, instr_type)
        arg2 == BoolToBitVec(s[Len(s) - 1], instr_type)
        o == Operands(arg1, arg2)
    IN IF op \in {"clz", "ctz"}
       THEN Result(Push(h1, sid, ClzCtz(instr_type, top)), RetList(<<sid>>))
       ELSE IF op = "popcnt"
       THEN Result(Push(h1, sid, Popcnt(instr_type, top)), RetList(<<sid>>))
       ELSE IF ~is_sized_bv(arg1) \/ ~is_sized_bv(arg2)
       THEN \* a float has no size()
            Result(h2, RetRaise("AttributeError"))
       ELSE IF arg1.size # helper_map[instr_type]
                 \/ arg2.size # helper_map[instr_type]
       THEN Result(h2, RetRaise("AssertionError"))
       ELSE IF op \notin DOMAIN IntBinary
       THEN Result(h2, RetRaise("UnsupportInstructionError"))
       ELSE Result(Push(h2, sid, BvApply(IntBinary[op], o.lhs, o.rhs)),
                   RetList(<<sid>>))

\* ------------------------------------------------- float arithmetic
\* A float constant is its shape, its sign and its magnitude; a float whose
\* value z3 would have to compute is kept as the term that computes it.
FPVal(shape, neg, mag) ==
    [kind |-> "fpval", ebits |-> shape[1], sbits |-> shape[2],
     neg |-> neg, mag |-> mag]

\* a symbolic float
FP(name, shape) ==
    [kind |-> "fpvar", ebits |-> shape[1], sbits |-> shape[2], name |-> name]

FpTerm(op, rm, shape, args) ==
    [kind |-> "fpterm", ebits |-> shape[1], sbits |-> shape[2],
     op |-> op, rm |-> rm, args |-> args]

\* values with ebits() and sbits()
is_fp(v) == v.kind \in {"fpval", "fpvar", "fpterm"}

\* arg.ebits() == helper_map[instr_type][0] and arg.sbits() == ...[1]
HasShape(v, shape) == v.ebits = shape[1] /\ v.sbits = shape[2]

\* simplify(fpNeg(v)), simplify(fpAbs(v))
fpNeg(v) ==
    IF v.kind = "fpval" THEN [v EXCEPT !.neg = ~v.neg]
    ELSE FpTerm("fpNeg", "", <<v.ebits, v.sbits>>, <<v>>)
fpAbs(v) ==
    IF v.kind = "fpval" THEN [v EXCEPT !.neg = FALSE]
    ELSE FpTerm("fpAbs", "", <<v.ebits, v.sbits>>, <<v>>)

\* the z3 function and rounding mode behind each float instruction
FloatBinary ==
    [add |-> <<"fpAdd", "RNE">>, sub |-> <<"fpSub", "RNE">>,
     mul |-> <<"fpMul", "RNE">>, div |-> <<"fpDiv", "RNE">>,
     min |-> <<"fpMin", "">>, max |-> <<"fpMax", "">>]
FloatUnary ==
    [sqrt |-> <<"fpSqrt", "RNE">>, floor |-> <<"fpRoundToIntegral", "RTN">>,
     ceil |-> <<"fpRoundToIntegral", "RTP">>,
     trunc |-> <<"fpRoundToIntegral", "RTZ">>,
     nearest |-> <<"fpRoundToIntegral", "RNE">>]
two_arguments_instrs == DOMAIN FloatBinary \cup {"copysign"}
one_argument_instrs == DOMAIN FloatUnary \cup {"abs", "neg"}

\* elif '.copysign' in self.instr_name == 'f32.copysign': a chained
\* comparison, true only of the 32-bit instruction
CopysignGuard(instr_name) == instr_name = "f32.copysign"

\* do_emulate_arithmetic_float_instruction, for the instruction
\* instr_type.op
EmulateArithFloat(h, sid, instr_type, op) ==
    LET s == StackOf(h, sid)
        shape == helper_map[instr_type]
        arg1 == s[Len(s)]
        arg2 == s[Len(s) - 1]
        h1 == PopN(h, sid, 1)
        h2 == PopN(h, sid, 2)
    IN IF op \in two_arguments_instrs
       THEN IF ~is_fp(arg1)
            THEN Result(h2, RetRaise("AttributeError"))
            ELSE IF ~HasShape(arg1, shape)
            THEN Result(h2, RetRaise("AssertionError"))
            ELSE IF ~is_fp(arg2)
            THEN Result(h2, RetRaise("AttributeError"))
            ELSE IF ~HasShape(arg2, shape)
            THEN Result(h2, RetRaise("AssertionError"))
            ELSE IF op \in DOMAIN FloatBinary
            THEN Result(Push(h2, sid,
                             FpTerm(FloatBinary[op][1], FloatBinary[op][2],
                                    shape, <<arg2, arg1>>)),
                        RetList(<<sid>>))
            ELSE IF ~CopysignGuard(instr_type \o "." \o op)
            THEN \* no branch bound result
                 Result(h2, RetRaise("UnboundLocalError"))
            ELSE IF arg1.kind # "fpval" \/ arg2.kind # "fpval"
            THEN \* only a float numeral has isPositive()
                 Result(h2, RetRaise("AttributeError"))
            ELSE IF (~arg2.neg) # (~arg1.neg)
            THEN Result(Push(h2, sid, fpNeg(arg1)), RetList(<<sid>>))
            ELSE Result(h2, RetRaise("UnboundLocalError"))
       ELSE IF op \in one_argument_instrs
       THEN IF ~is_fp(arg1)
            THEN Result(h1, RetRaise("AttributeError"))
            ELSE IF ~HasShape(arg1, shape)
            THEN Result(h1, RetRaise("AssertionError"))
            ELSE Result(Push(h1, sid,
                             CASE op = "abs" -> fpAbs(arg1)
                               [] op = "neg" -> fpNeg(arg1)
                               [] OTHER ->
                                    FpTerm(FloatUnary[op][1],
                                           FloatUnary[op][2],
                                           shape, <<arg1>>)),
                        RetList(<<sid>>))
       ELSE Result(h, RetRaise("UnsupportInstructionError"))

\* ------------------------------------------------------- conversions
\* A conversion is named target.kind/source.
conv_shape ==
    [i8 |-> 8, i32 |-> 32, i64 |-> 64, f32 |-> <<8, 24>>, f64 |-> <<11, 53>>]

\* the opcodes of the if-chain, as <<target, kind, source>>
ConvOps ==
    {<<"i32", "wrap", "i64">>, <<"i64", "extend_s", "i32">>,
     <<"i64", "extend_u", "i32">>, <<"i32", "extend_s", "i8">>,
     <<"f32", "demote", "f64">>, <<"f64", "promote", "f32">>,
     <<"i32", "reinterpret", "f32">>, <<"i64", "reinterpret", "f64">>,
     <<"f32", "reinterpret", "i32">>, <<"f64", "reinterpret", "i64">>}
        \cup {<<d, k, t>> : d \in {"i32", "i64"},
                             k \in {"trunc_s", "trunc_u"},
                             t \in {"f32", "f64"}}
        \cup {<<d, k, t>> : d \in {"f32", "f64"},
                             k \in {"convert_s", "convert_u"},
                             t \in {"i32", "i64"}}

ConvName(op) == op[1] \o "." \o op[2] \o "/" \o op[3]

IsFloatType(t) == t \in {"f32", "f64"}

\* a one-operand bit-vector term
BvTerm1(op, size, arg) ==
    [kind |-> "bvterm", size |-> size, op |-> op, args |-> <<arg>>]

\* the operand has the accessor the assertion calls: size() for an integer
\* source, ebits() and sbits() for a float source
SameSort(arg0, t) == IF IsFloatType(t) THEN is_fp(arg0) ELSE is_sized_bv(arg0)

\* a source check that lets wider integers through
SourceAtLeast(arg0, t) ==
    IF IsFloatType(t) THEN HasShape(arg0, conv_shape[t])
    ELSE arg0.size >= conv_shape[t]

\* assert arg0.size() == N / assert arg0.ebits() == E, arg0.sbits() == S
SourceMatches(arg0, t) ==
    IF IsFloatType(t) THEN HasShape(arg0, conv_shape[t])
    ELSE arg0.size = conv_shape[t]

\* simplify(Extract(31, 0, arg0 % BitVecVal(2 ** 32, 64)))
Wrap(arg0) ==
    IF arg0.kind = "bvval" THEN Val(32, SubSeq(arg0.limbs, 1, 4))
    ELSE BvTerm1("Extract(31, 0, bvsmod 2^32)", 32, arg0)

\* simplify(SignExt(n, arg0)), simplify(ZeroExt(n, arg0))
Ext(signed, n, arg0) ==
    IF arg0.kind = "bvval"
    THEN Val(arg0.size + n,
             arg0.limbs \o [i \in 1..NumBytes(n) |->
                               IF signed /\ IsNegL(arg0.limbs) THEN 255
                               ELSE 0])
    ELSE BvTerm1(IF signed THEN "SignExt" ELSE "ZeroExt", arg0.size + n, arg0)

\* simplify(fpFPToFP(RNE(), arg0, sort)): the constants of the model are
\* exact in both shapes
fpFPToFP(arg0, shape) ==
    IF arg0.kind = "fpval" THEN FPVal(shape, arg0.neg, arg0.mag)
    ELSE FpTerm("fpFPToFP", "RNE", shape, <<arg0>>)

\* the value a conversion computes from an operand of its source type
Converted(op, arg0) ==
    LET dst == conv_shape[op[1]]
    IN CASE op[2] = "wrap" -> Wrap(arg0)
         [] op[2] = "extend_s" -> Ext(TRUE, dst - conv_shape[op[3]], arg0)
         [] op[2] = "extend_u" -> Ext(FALSE, dst - conv_shape[op[3]], arg0)
         [] op[2] = "trunc_s" -> BvTerm1("fpToSBV RTZ", dst, arg0)
         [] op[2] = "trunc_u" -> BvTerm1("fpToUBV RTZ", dst, arg0)
         [] op[2] \in {"demote", "promote"} -> fpFPToFP(arg0, dst)
         [] op[2] = "convert_s" -> FpTerm("fpSignedToFP", "RNE", dst, <<arg0>>)
         [] op[2] = "convert_u" ->
                FpTerm("fpUnsignedToFP", "RNE", dst, <<arg0>>)
         [] op[2] = "reinterpret" /\ IsFloatType(op[3]) ->
                BvTerm1("fpToIEEEBV", arg0.ebits + arg0.sbits, arg0)
         [] op[2] = "reinterpret" /\ ~IsFloatType(op[3]) ->
                FpTerm("fpBVToFP", "", dst, <<arg0>>)

\* the branches that assert the shape of their result
ResultAsserted(op) == op[2] \notin {"wrap", "extend_s", "extend_u"}

\* ConversionInstructions.emulate
EmulateConversion(h, sid, op) ==
    LET arg0 == Top(h, sid)
        h1 == PopN(h, sid, 1)
        result == Converted(op, arg0)
    IN IF op \notin ConvOps
       THEN Result(h1, RetRaise("UnsupportInstructionError"))
       ELSE IF ~SameSort(arg0, op[3])
       THEN Result(h1, RetRaise("AttributeError"))
       ELSE IF ~SourceMatches(arg0, op[3])
       THEN Result(h1, RetRaise("AssertionError"))
       ELSE IF ResultAsserted(op) /\ ~SourceMatches(result, op[1])
       THEN Result(h1, RetRaise("AssertionError"))
       ELSE Result(Push(h1, sid, result), RetList(<<sid>>))

\* ------------------------------------------- arguments of library models
\* what _extract_params hands back: the list params_result
RetParams(p) == [kind |-> "params", states |-> <<>>, exc |-> "", params |-> p]

\* i.as_long() if is_bv_value(i) else i
Concretize(v) ==
    IF is_bv_value(v) THEN [kind |-> "int", id |-> as_long(v)] ELSE v

\* _extract_params(param_str, state)
extract_params(h, sid, param_str) ==
    LET param_cnt == Len(Split(param_str))
        stack == StackOf(h, sid)
        params == PoppedArgs(stack, param_cnt)
    IN IF Len(stack) < param_cnt
       THEN Result(PopN(h, sid, Len(stack)), RetRaise("IndexError"))
       ELSE Result(PopN(h, sid, param_cnt),
                   RetParams([j \in 1..param_cnt |-> Concretize(params[j])]))

\* ------------------------------------------------------------------- nop
EmulateNop(h, sid, xref) ==
    IF xref THEN restore_context(h, sid) ELSE Result(h, RetList(<<sid>>))

skip_command == {"loop", "end", "br", "else", "block"}
term_command == {"unreachable", "return"}

\* a skipped instruction that leaves the function as its exit point does
EmulateSkipAsExit(h, sid) == restore_context(h, sid)

\* loop, end, br, else, block, unreachable, return
EmulateSkip(h, sid) == Result(h, RetList(<<sid>>))

\* ------------------------------------------------------------ br_if / if
\* a pruning test that never finds a side infeasible
NoNeedNever(solver, c) == FALSE

\* unsat == one_time_query_cache(state.solver, c)
NoNeed(solver, c) == one_time_query_cache(solver, c) = "unsat"

\* state.edge_type = 'conditional_true_0'; state.solver.add(op)
TakeTrue(h, sid, op) == SolverAdd(SetEdge(h, sid, CondTrue(0)), sid, op)

\* a false branch that adds the condition without negating it
TakeFalseNoNeg(h, sid, op) ==
    SolverAdd(SetEdge(h, sid, CondFalse0), sid, op)

\* state.edge_type = 'conditional_false_0'; state.solver.add(Not(op))
TakeFalse(h, sid, op) ==
    SolverAdd(SetEdge(h, sid, CondFalse0), sid, Not(op))

\* a concrete branch that labels both outcomes as taken
ConcreteEdgeAlwaysTrue(c) == CondTrue(0)

\* the edge annotation of a concretely decided condition
ConcreteEdge(c) == IF is_true(c) THEN CondTrue(0) ELSE CondFalse0

EmulateBrIf(h, sid) ==
    LET h1 == PopN(h, sid, 1)
        op == NeZero(Top(h, sid))
        no_need_true == NoNeed(SolverOf(h1, sid), op)
        no_need_false == NoNeed(SolverOf(h1, sid), Not(op))
        h2 == ForkState(h1, sid)
        new_state == Len(h2.states)
    IN IF is_true(op) \/ is_false(op)
       THEN Result(SetEdge(h1, sid, ConcreteEdge(op)), RetList(<<sid>>))
       ELSE IF no_need_true /\ no_need_false
       THEN Result(h1, RetList(<<>>))
       ELSE IF ~no_need_true /\ ~no_need_false
       THEN Result(TakeFalse(TakeTrue(h2, sid, op), new_state, op),
                   RetList(<<sid, new_state>>))
       ELSE IF no_need_true
       THEN Result(TakeFalse(h1, sid, op), RetList(<<sid>>))
       ELSE Result(TakeTrue(h1, sid, op), RetList(<<sid>>))

\* ----------------------------------------------------------------- select
\* state.solver.add(op); state.symbolic_stack.append(arg1)
SelectZero(h, sid, op, arg1, arg2) ==
    Push(SolverAdd(h, sid, op), sid, arg1)

\* a nonzero side that is handed the zero side's operand
SelectNonZeroSameOperand(h, sid, op, arg1, arg2) ==
    Push(SolverAdd(h, sid, Not(op)), sid, arg1)

\* state.solver.add(Not(op)); state.symbolic_stack.append(arg2)
SelectNonZero(h, sid, op, arg1, arg2) ==
    Push(SolverAdd(h, sid, Not(op)), sid, arg2)

EmulateSelect(h, sid) ==
    LET s == StackOf(h, sid)
        arg0 == s[Len(s)]
        arg1 == s[Len(s) - 1]
        arg2 == s[Len(s) - 2]
        h1 == PopN(h, sid, 3)
        op == EqZero(arg0)
        no_need_true == NoNeed(SolverOf(h1, sid), op)
        no_need_false == NoNeed(SolverOf(h1, sid), Not(op))
        h2 == ForkState(h1, sid)
        new_state == Len(h2.states)
    IN IF ~is_bv(arg0)
       THEN \* op is only bound for a bit-vector condition
            Result(h1, RetRaise("UnboundLocalError"))
       ELSE IF is_true(op)
       THEN Result(Push(h1, sid, arg1), RetList(<<sid>>))
       ELSE IF is_false(op)
       THEN Result(Push(h1, sid, arg2), RetList(<<sid>>))
       ELSE IF no_need_true /\ no_need_false
       THEN Result(h1, RetNone)
       ELSE IF ~no_need_true /\ ~no_need_false
       THEN Result(
              SelectNonZero(SelectZero(h2, sid, op, arg1, arg2),
                            new_state, op, arg1, arg2),
              RetList(<<sid, new_state>>))
       ELSE IF no_need_true
       THEN Result(SelectNonZero(h1, sid, op, arg1, arg2), RetList(<<sid>>))
       ELSE Result(SelectZero(h1, sid, op, arg1, arg2), RetList(<<sid>>))

\* --------------------------------------------------------------- br_table
\* one entry per table slot: destinations are not grouped
TargetsUngrouped(br_lis) == br_lis

\* keys of target_branch2index, in order of first occurrence
RECURSIVE TargetsOf(_)
TargetsOf(br_lis) ==
    IF br_lis = <<>> THEN <<>>
    ELSE LET r == TargetsOf(SubSeq(br_lis, 1, Len(br_lis) - 1))
             x == br_lis[Len(br_lis)]
         IN IF \E i \in 1..Len(r) : r[i] = x THEN r ELSE Append(r, x)

\* target_branch2index[target]: the (0-based) table indices mapping to target
IndexList(br_lis, target) ==
    {j - 1 : j \in {i \in 1..Len(br_lis) : br_lis[i] = target}}

\* a comparison that counts the table's entries from one
EqAnyFromOne(op, index_list) ==
    IF op.kind = "bv"
    THEN IF (op.id - 1) \in index_list THEN TrueC ELSE FalseC
    ELSE Atom(op, {i + 1 : i \in index_list})

\* simplify(Or([simplify(op == i) for i in index_list]))
EqAny(op, index_list) ==
    IF op.kind = "bv"
    THEN IF op.id \in index_list THEN TrueC ELSE FalseC
    ELSE Atom(op, index_list)

\* a default condition that forgets the indices below zero
DefaultCondNoNegative(op, n_br) ==
    IF op.kind = "bv"
    THEN IF op.id >= n_br THEN TrueC ELSE FalseC
    ELSE Atom(op, {v \in BVDom : v >= n_br})

\* simplify(Or(op >= n_br, op < 0)), signed comparison
DefaultCond(op, n_br) ==
    IF op.kind = "bv"
    THEN IF op.id >= n_br \/ op.id < 0 THEN TrueC ELSE FalseC
    ELSE Atom(op, {v \in BVDom : v >= n_br \/ v < 0})

\* for target, index_list in target_branch2index.items(): ...
RECURSIVE BrTableLoop(_, _, _, _, _, _)
BrTableLoop(h, sid, op, br_lis, targets, states) ==
    IF targets = <<>> THEN [heap |-> h, states |-> states]
    ELSE LET target == Head(targets)
             cond == EqAny(op, IndexList(br_lis, target))
             h2 == ForkState(h, sid)
             new_state == Len(h2.states)
         IN IF is_false(cond)
            THEN BrTableLoop(h, sid, op, br_lis, Tail(targets), states)
            ELSE IF is_true(cond)
            THEN BrTableLoop(SetEdge(h2, new_state, CondTrue(target)), sid,
                             op, br_lis, Tail(targets),
                             Append(states, new_state))
            ELSE BrTableLoop(
                   SetEdge(SolverAdd(h2, new_state, cond), new_state,
                           CondTrue(target)),
                   sid, op, br_lis, Tail(targets), Append(states, new_state))

EmulateBrTable(h, sid, br_lis) ==
    LET op == Top(h, sid)
        h1 == PopN(h, sid, 1)
        n_br == Len(br_lis)
        loop == BrTableLoop(h1, sid, op, br_lis, TargetsOf(br_lis), <<>>)
        cond == DefaultCond(op, n_br)
        h3 == IF is_false(cond) THEN loop.heap
              ELSE IF is_true(cond) THEN SetEdge(loop.heap, sid, CondFalse0)
              ELSE SetEdge(SolverAdd(loop.heap, sid, cond), sid, CondFalse0)
        states == IF is_false(cond) THEN loop.states
                  ELSE Append(loop.states, sid)
    IN IF ~is_bv(op)
       THEN \* a boolean cannot be compared with a table index
            Result(h1, RetRaise("Z3Exception"))
       ELSE IF Len(states) = 0
       THEN Result(h3, RetRaise("AssertionError"))
       ELSE Result(h3, RetList(states))

\* ------------------------------------------------------------ ghost state
\* per state: the internal calls made, the frames popped, and for every
\* call not yet returned the stack, locals and function before the call
GhostEntry == [calls |-> 0, rets |-> 0, pre |-> <<>>, popped |-> <<>>]

GhostCall(g, h, sid, f_offset) ==
    [g EXCEPT !.calls = @ + 1,
              !.pre = Append(@, [stack |-> StackOf(h, sid),
                                 local |-> LocalOf(h, sid),
                                 func |-> h.states[sid].current_func_name,
                                 f_offset |-> f_offset])]

GhostReturn(g) ==
    [g EXCEPT !.rets = @ + 1,
              !.pre = SubSeq(@, 1, Len(@) - 1),
              !.popped = <<g.pre[Len(g.pre)]>>]

\* states created by a fork inherit the history of the state they copy
GhostAfter(g, h2, sid, upd) ==
    [i \in 1..Len(h2.states) |->
        IF i = sid THEN upd ELSE IF i <= Len(g) THEN g[i] ELSE g[sid]]

Range(s) == {s[i] : i \in 1..Len(s)}

\* ------------------------------------------------------------------- Init
ConstVals == {0, 1}
LogicalVals == {BoolV(TRUE), BoolV(FALSE), P}
LocalIdx == {0, 2}
BrTables == {<<1, 2, 1>>, <<1, 2, 3>>}

\* the entry function's parameter is symbolic; the entry state may already
\* hold copies of it on the operand stack (get_local 0 repeated)
InitStacks == {[i \in 1..n |-> X] : n \in 0..MaxInitStack}
InitLocal == [i \in {0} |-> X]

Instr(instr, sid, arg) ==
    [instr |-> instr, sid |-> sid, arg |-> arg, tbl |-> <<>>, bb |-> ""]
NoLast == Instr("", 0, 0)

\* state.globals: the module's global variables, read and written only by
\* get_global and set_global
InitGlobals == <<BV(0)>>

InitWith(stacks, n) ==
    /\ \E s \in stacks :
         heap = [states |-> <<[symbolic_stack |-> 1, local_var |-> 1,
                               solver |-> 1, context_stack |-> 1,
                               current_func_name |-> "main",
                               current_bb_name |-> "block_a",
                               edge_type |-> NoEdge,
                               call_indirect_callee |-> "",
                               globals |-> InitGlobals]>>,
                 stacks |-> <<s>>,
                 locals |-> <<InitLocal>>,
                 solvers |-> << <<>> >>,
                 ctxs |-> << <<>> >>]
    /\ prev = heap
    /\ live = {1}
    /\ ret = RetList(<<1>>)
    /\ last = NoLast
    /\ ghost = <<GhostEntry>>
    /\ budget = n
    /\ dsl_flag \in BOOLEAN

\* Configuration.get_source_type(): the module was compiled from C
Init == InitWith(InitStacks, MaxSteps) /\ source_type = "c"

\* ---------------------------------------------------------------- actions
\* The driver hands one live state and one instruction to emulate and
\* re-enqueues the states returned.  prev keeps the heap as it was before
\* the instruction.
Step(sid, l, R, g) ==
    LET r == R
    IN /\ budget > 0
       /\ heap' = r.heap
       /\ prev' = heap
       /\ ret' = r.ret
       /\ live' = (live \ {sid}) \cup Range(r.ret.states)
       /\ last' = l
       /\ ghost' = GhostAfter(ghost, r.heap, sid, g)
       /\ budget' = budget - 1
       /\ UNCHANGED <<dsl_flag, source_type>>

Depth(sid) == Len(StackOf(heap, sid))

Const ==
    \E sid \in live, n \in ConstVals :
        Step(sid, Instr("i32.const", sid, n), EmulateConst(heap, sid, n),
             ghost[sid])

Logical ==
    \E sid \in live, b \in LogicalVals :
        Step(sid, Instr("logical", sid, b.id), EmulateLogical(heap, sid, b),
             ghost[sid])

Drop ==
    \E sid \in live :
        /\ Depth(sid) >= 1
        /\ Step(sid, Instr("drop", sid, 0), EmulateDrop(heap, sid),
                ghost[sid])

GetLocal ==
    \E sid \in live, op \in LocalIdx :
        /\ op \in DOMAIN LocalOf(heap, sid)
        /\ Step(sid, Instr("get_local", sid, op),
                EmulateGetLocal(heap, sid, op), ghost[sid])

SetLocal ==
    \E sid \in live, op \in LocalIdx :
        /\ Depth(sid) >= 1
        /\ Step(sid, Instr("set_local", sid, op),
                EmulateSetLocal(heap, sid, op), ghost[sid])

TeeLocal ==
    \E sid \in live, op \in LocalIdx :
        /\ Depth(sid) >= 1
        /\ Step(sid, Instr("tee_local", sid, op),
                EmulateTeeLocal(heap, sid, op), ghost[sid])

Select ==
    \E sid \in live :
        /\ Depth(sid) >= 3
        /\ Step(sid, Instr("select", sid, 0), EmulateSelect(heap, sid),
                ghost[sid])

BrIf ==
    \E sid \in live, name \in {"br_if", "if"} :
        /\ Depth(sid) >= 1
        /\ Step(sid, Instr(name, sid, 0), EmulateBrIf(heap, sid), ghost[sid])

BrTable ==
    \E sid \in live, br_lis \in BrTables :
        /\ Depth(sid) >= 1
        /\ Step(sid, [Instr("br_table", sid, Len(br_lis)) EXCEPT !.tbl = br_lis],
                EmulateBrTable(heap, sid, br_lis), ghost[sid])

\* callees no library model exists for, in any source language
Defined ==
    {i \in 1..Len(FuncProtos) :
        \A lang \in DOMAIN MODELED_FUNCS :
            ~is_modeled(FuncProtos[i].name, lang)}

\* callees with a library model in some source language
Modeled == (1..Len(FuncProtos)) \ Defined

\* call f_offset, for the callees in targets
CallOn(targets) ==
    \E sid \in live, f_offset \in targets, cur_bb \in Blocks :
        LET rule ==
                Dispatch(dsl_flag, source_type, FuncProtos[f_offset].name)
            internal == rule = "internal"
        IN \* the callee's arguments are on the stack
           /\ rule \in {"internal", "c_lib", "go_lib", "wasi"} =>
                Depth(sid) >= NumArg(FuncProtos[f_offset].param_str)
           \* cur_bb is read by store_context only
           /\ ~internal => cur_bb = "block_a"
           /\ Step(sid, [Instr("call", sid, f_offset) EXCEPT !.bb = cur_bb],
                   deal_with_call(heap, sid, f_offset, cur_bb, dsl_flag,
                                  source_type),
                   IF internal
                   THEN GhostCall(ghost[sid], heap, sid, f_offset)
                   ELSE ghost[sid])

Call == CallOn(Defined)

\* table slots pushed as call_indirect operands (i32.const)
IndexVals == ElemOffset..(ElemOffset + 5)

TableIndex ==
    \E sid \in live, n \in IndexVals :
        Step(sid, Instr("i32.const", sid, n), EmulateConst(heap, sid, n),
             ghost[sid])

CallIndirect ==
    \E sid \in live :
        LET op == TableIndexOf(Top(heap, sid))
            key == ElemKey(op.value, ElemOffset)
            resolved == /\ op.concrete
                        /\ key \in DOMAIN ElemIndexToFunc
                        /\ CalleeFuncOffset(ElemIndexToFunc[key]) > 0
            f_offset == IF resolved
                        THEN CalleeFuncOffset(ElemIndexToFunc[key]) ELSE 0
            rule == IF resolved
                    THEN Dispatch(dsl_flag, source_type,
                                  FuncProtos[f_offset].name)
                    ELSE "none"
        IN /\ Depth(sid) >= 1
           \* the callee's arguments are on the stack beneath the index
           /\ rule \in {"internal", "c_lib", "go_lib", "wasi"} =>
                Depth(sid) - 1 >= NumArg(FuncProtos[f_offset].param_str)
           /\ Step(sid,
                   [Instr("call_indirect", sid, f_offset)
                      EXCEPT !.bb = "block_a"],
                   EmulateCallIndirect(heap, sid, "block_a", dsl_flag,
                                       source_type),
                   IF rule = "internal"
                   THEN GhostCall(ghost[sid], PopN(heap, sid, 1), sid,
                                  f_offset)
                   ELSE ghost[sid])

CallModeled == CallOn(Modeled)

Nop ==
    \E sid \in live, xref \in BOOLEAN :
        LET ctx == CtxOf(heap, sid)
            pops == xref /\ Len(ctx) > 0
        IN Step(sid, Instr(IF xref THEN "nop_exit" ELSE "nop", sid, 0),
                EmulateNop(heap, sid, xref),
                IF pops THEN GhostReturn(ghost[sid]) ELSE ghost[sid])

Skip ==
    \E sid \in live, name \in skip_command \cup term_command :
        Step(sid, Instr(name, sid, 0), EmulateSkip(heap, sid), ghost[sid])

Next ==
    \/ Const
    \/ Logical
    \/ Drop
    \/ GetLocal
    \/ SetLocal
    \/ TeeLocal
    \/ Select
    \/ BrIf
    \/ BrTable
    \/ Call
    \/ Nop
    \/ Skip

Spec == Init /\ [][Next]_vars

\* The same driver stopping one instruction earlier.
InitShort == InitWith(InitStacks, MaxSteps - 1) /\ source_type = "c"

SpecShort == InitShort /\ [][Next]_vars

\* The branching instructions alone: operands are pushed, dropped and
\* branched on.
NextBranch ==
    \/ Const
    \/ Logical
    \/ Drop
    \/ Select
    \/ BrIf
    \/ BrTable

SpecBranch == Init /\ [][NextBranch]_vars

\* Calls and returns, with the callee reading and writing locals, popping
\* operands and forking in between.
NextCall ==
    \/ GetLocal
    \/ SetLocal
    \/ Drop
    \/ BrIf
    \/ Call
    \/ Nop

SpecCall == Init /\ [][NextCall]_vars

\* Instructions that consume operands and may fork, started with the
\* operands already pushed: constants, the symbolic parameter, a symbolic
\* boolean left by a comparison.
OperandVals == {X, P, BV(0), BV(5), BV(9)}
OperandStacks == UNION {[1..n -> OperandVals] : n \in 0..(MaxInitStack + 1)}

InitOperand ==
    /\ InitWith(OperandStacks, MaxSteps - 1)
    /\ source_type = "c"
    /\ ~dsl_flag

NextOperand ==
    \/ Select
    \/ BrIf
    \/ BrTable

SpecOperand == InitOperand /\ [][NextOperand]_vars

IntTypes == {"i32", "i64"}
IntUnaryOps == {"clz", "ctz", "popcnt"}
IntBinaryOps == DOMAIN IntBinary

\* instr_name of an arithmetic instruction
InstrName(instr_type, op) == instr_type \o "." \o op

ArithInt ==
    \E sid \in live, instr_type \in IntTypes,
       op \in IntUnaryOps \cup IntBinaryOps :
        /\ Depth(sid) >= (IF op \in IntUnaryOps THEN 1 ELSE 2)
        /\ Step(sid, Instr(InstrName(instr_type, op), sid, 0),
                EmulateArithInt(heap, sid, instr_type, op), ghost[sid])

\* 32- and 64-bit operands: small numbers of both signs, the extremes, 2^32,
\* a symbol of each width
Min32 == Val(32, <<0, 0, 0, 128>>)
Two32 == Val(64, <<0, 0, 0, 0, 1, 0, 0, 0>>)
Min64 == Val(64, <<0, 0, 0, 0, 0, 0, 0, 128>>)
X32 == BitVec("x", 32)
X64 == BitVec("y", 64)
IntVals ==
    {BitVecVal(n, 32) : n \in {0, 2, 3, 7, -7, -1}}
        \cup {BitVecVal(n, 64) : n \in {0, 3, -7, -1}}
        \cup {Min32, Two32, Min64, X32, X64}

\* Arithmetic on operands already pushed: one or two of them, of either
\* width, a boolean left by a comparison among them.
ArithVals == IntVals \cup {P}
ArithStacks == UNION {[1..n -> ArithVals] : n \in {1, 2}}

InitArith ==
    /\ InitWith(ArithStacks, MaxSteps - 2)
    /\ source_type = "c"
    /\ ~dsl_flag

NextArith ==
    \/ ArithInt

SpecArith == InitArith /\ [][NextArith]_vars

FloatTypes == {"f32", "f64"}

ArithFloat ==
    \E sid \in live, instr_type \in FloatTypes,
       op \in two_arguments_instrs \cup one_argument_instrs :
        /\ Depth(sid) >= (IF op \in one_argument_instrs THEN 1 ELSE 2)
        /\ Step(sid, Instr(InstrName(instr_type, op), sid, 0),
                EmulateArithFloat(heap, sid, instr_type, op), ghost[sid])

\* Float arithmetic on operands already pushed: constants of both shapes,
\* signs and two magnitudes, a symbolic float, and a bit-vector.
FloatVals ==
    {FPVal(helper_map[t], neg, mag) :
        t \in FloatTypes, neg \in BOOLEAN, mag \in {1, 2}}
        \cup {FP("f", helper_map["f32"]), X32}
FloatStacks == UNION {[1..n -> FloatVals] : n \in {1, 2}}

InitFloat ==
    /\ InitWith(FloatStacks, MaxSteps - 2)
    /\ source_type = "c"
    /\ ~dsl_flag

NextFloat ==
    \/ ArithFloat

SpecFloat == InitFloat /\ [][NextFloat]_vars

\* an opcode the if-chain does not know
UnknownConv == <<"i64", "extend_s", "i8">>

Convert ==
    \E sid \in live, op \in ConvOps \cup {UnknownConv} :
        /\ Depth(sid) >= 1
        /\ Step(sid, Instr(ConvName(op), sid, 0),
                EmulateConversion(heap, sid, op), ghost[sid])

\* Conversions of operands already pushed: integers of 8, 32 and 64 bits,
\* floats of both shapes, symbols, a boolean.
High64 == Val(64, <<253, 255, 255, 255, 1, 0, 0, 0>>)
ConvVals ==
    {BitVecVal(0 - 7, 8), BitVecVal(7, 32), BitVecVal(0 - 7, 32), X32,
     High64, X64, FPVal(helper_map["f32"], FALSE, 1),
     FPVal(helper_map["f64"], TRUE, 2), FP("f", helper_map["f32"]),
     FP("g", helper_map["f64"]), P}
ConvStacks == UNION {[1..n -> ConvVals] : n \in {1, 2}}

InitConv ==
    /\ InitWith(ConvStacks, MaxSteps - 2)
    /\ source_type = "c"
    /\ ~dsl_flag

NextConv ==
    \/ Convert

SpecConv == InitConv /\ [][NextConv]_vars

\* parameter strings of imported functions
ParamStrs == << <<>>, <<"i32">>, <<"i32", "i32">> >>

\* a library model fetching its arguments
ExtractParams ==
    \E sid \in live, i \in 1..Len(ParamStrs) :
        LET r == extract_params(heap, sid, ParamStrs[i])
        IN /\ budget > 0
           /\ heap' = r.heap
           /\ prev' = heap
           /\ ret' = r.ret
           /\ live' = IF r.ret.kind = "raise" THEN live \ {sid} ELSE live
           /\ last' = Instr("_extract_params", sid, i)
           /\ ghost' = GhostAfter(ghost, r.heap, sid, ghost[sid])
           /\ budget' = budget - 1
           /\ UNCHANGED <<dsl_flag, source_type>>

\* Arguments taken off the operand stack, by an internal call and by a
\* library model.
ParamVals == {X, P, BV(5)}
ParamStacks == UNION {[1..n -> ParamVals] : n \in 0..MaxInitStack}

InitParams ==
    /\ InitWith(ParamStacks, MaxSteps - 2)
    /\ source_type = "c"
    /\ ~dsl_flag

NextParams ==
    \/ ExtractParams
    \/ Call

SpecParams == InitParams /\ [][NextParams]_vars

\* Calls of every kind of callee, in modules of every source language.
InitDispatch ==
    InitWith(InitStacks, MaxSteps - 1) /\ source_type \in SourceTypes

NextDispatch ==
    \/ Call
    \/ CallModeled
    \/ TableIndex
    \/ CallIndirect

SpecDispatch == InitDispatch /\ [][NextDispatch]_vars

\* ------------------------------------------------- reading the two heaps
sid0 == last.sid
Emulated(names) == last.instr \in names /\ sid0 \in 1..Len(prev.states)

\* a frame with the contents of the objects it refers to
FrameView(h, fr) ==
    [func |-> fr.func, bb |-> fr.bb, stack |-> h.stacks[fr.stack],
     local |-> h.locals[fr.local], ret |-> fr.ret]

CtxView(h, sid) ==
    [i \in 1..Len(CtxOf(h, sid)) |-> FrameView(h, CtxOf(h, sid)[i])]

\* what a state holds, objects followed to their contents
View(h, sid) ==
    [symbolic_stack |-> StackOf(h, sid),
     local_var |-> LocalOf(h, sid),
     solver |-> SolverOf(h, sid),
     context_stack |-> CtxView(h, sid),
     current_func_name |-> h.states[sid].current_func_name,
     edge_type |-> h.states[sid].edge_type]

IsSymbolic(v) == v.kind \in {"bvsym", "boolsym"}

\* the assignments of the symbols that satisfy a path constraint
Models(solver) ==
    {a \in Assignments : \A i \in 1..Len(solver) : Holds(a, solver[i])}

\* the operand popped by the last br_if / if / select / br_table
PoppedCond == Top(prev, sid0)
PrevModels == Models(SolverOf(prev, sid0))
\* a symbolic condition is taken when the symbol is nonzero (true)
FeasibleTrue == \E a \in PrevModels : a[PoppedCond] # 0
FeasibleFalse == \E a \in PrevModels : a[PoppedCond] = 0

LastConstraint(sid) == SolverOf(heap, sid)[Len(SolverOf(heap, sid))]
AddedOne(sid) ==
    /\ Len(SolverOf(heap, sid)) = Len(SolverOf(prev, sid0)) + 1
    /\ SubSeq(SolverOf(heap, sid), 1, Len(SolverOf(prev, sid0)))
         = SolverOf(prev, sid0)

\* ---------------------------------------------------------------- claims
\* C1: br_if / if on a symbolic condition c, with both (path /\ c) and
\* (path /\ ~c) satisfiable, returns exactly two states: the first has
\* exactly c added to the parent's path constraint and edge
\* conditional_true_0, the second exactly ~c and edge conditional_false_0;
\* on every assignment exactly one of the two added constraints holds.
C1_ForkBothFeasible ==
    (/\ Emulated({"br_if", "if"})
     /\ IsSymbolic(PoppedCond)
     /\ FeasibleTrue /\ FeasibleFalse)
    => /\ ret.kind = "list"
       /\ Len(ret.states) = 2
       /\ ret.states[1] # ret.states[2]
       /\ LET t == ret.states[1]
              f == ret.states[2]
          IN /\ AddedOne(t) /\ AddedOne(f)
             /\ heap.states[t].edge_type = CondTrue(0)
             /\ heap.states[f].edge_type = CondFalse0
             /\ \A a \in Assignments :
                  /\ Holds(a, LastConstraint(t)) <=> a[PoppedCond] # 0
                  /\ Holds(a, LastConstraint(f)) <=> a[PoppedCond] = 0
                  /\ Holds(a, LastConstraint(t)) # Holds(a, LastConstraint(f))
             /\ StackOf(heap, t) = SubSeq(StackOf(prev, sid0), 1,
                                          Len(StackOf(prev, sid0)) - 1)
             /\ StackOf(heap, f) = StackOf(heap, t)

C1_Witness ==
    /\ Emulated({"br_if", "if"})
    /\ IsSymbolic(PoppedCond)
    /\ FeasibleTrue /\ FeasibleFalse
    /\ Len(ret.states) = 2
    /\ Len(SolverOf(prev, sid0)) > 0

InternalCall ==
    /\ Emulated({"call"})
    /\ Dispatch(dsl_flag, source_type, FuncProtos[last.arg].name)
         = "internal"
Callee == FuncProtos[last.arg]

\* the last instruction was an exit-point nop that popped a frame
Returned ==
    /\ Emulated({"nop_exit"})
    /\ Len(CtxOf(prev, sid0)) > 0
    /\ ret.kind = "list"
\* what the state held before the call this return belongs to
Snap == ghost[sid0].popped[1]
SnapCallee == FuncProtos[Snap.f_offset]

ButLast(s, n) == SubSeq(s, 1, Len(s) - n)

\* C3: after an internal call into a function with P parameters and one
\* return value and that function's return at its exit point, the stack is
\* the pre-call stack without its top P operands plus the callee's top
\* value, the locals are the pre-call locals and the function is the caller.
C3_CallReturnRoundTrip ==
    (Returned /\ SnapCallee.return_str # "")
    => /\ ret = RetList(<<sid0>>)
       /\ StackOf(heap, sid0) =
            Append(ButLast(Snap.stack, Len(SnapCallee.param_str)),
                   Top(prev, sid0))
       /\ LocalOf(heap, sid0) = Snap.local
       /\ heap.states[sid0].current_func_name = Snap.func

\* a return from a callee with parameters that changed its locals and
\* left more than the return value on its stack
C3_Witness ==
    /\ Returned /\ SnapCallee.return_str # ""
    /\ Len(SnapCallee.param_str) >= 1
    /\ LocalOf(prev, sid0) # Snap.local
    /\ StackOf(prev, sid0) # <<Top(prev, sid0)>>

\* C4 (as claimed): after an internal call into a callee with N parameters
\* local_var holds exactly the keys 0..N-1, the first-pushed argument at
\* index 0 and the last-pushed at N-1.
C4_CalleeLocalsExact ==
    InternalCall
    => LET N == Len(Callee.param_str)
           pre == StackOf(prev, sid0)
       IN /\ DOMAIN LocalOf(heap, sid0) = 0..(N - 1)
          /\ \A i \in 0..(N - 1) :
               LocalOf(heap, sid0)[i] = pre[Len(pre) - N + 1 + i]

\* C5 (as claimed): a symbolic br_if / if / select condition neither side
\* of which is satisfiable ends in an error, not in a normal return.
C5_InfeasibleIsError ==
    (/\ Emulated({"br_if", "if", "select"})
     /\ IsSymbolic(PoppedCond)
     /\ ~FeasibleTrue /\ ~FeasibleFalse)
    => ret.kind = "raise"

\* C6 (as claimed): every emulate returns a sequence of at most two states.
C6_AtMostTwoStates ==
    ret.kind # "raise" => (ret.kind = "list" /\ Len(ret.states) <= 2)

DistinctTargets == Cardinality(Range(last.tbl))

\* C6 (amended): every instruction other than br_table hands back at most
\* two states; br_table hands back at most one state per distinct
\* destination plus one for the default, and exactly that many for a
\* symbolic index.
C6_SuccessorBound ==
    /\ last.instr # "br_table" => Len(ret.states) <= 2
    /\ Emulated({"br_table"}) =>
         /\ Len(ret.states) <= DistinctTargets + 1
         /\ PoppedCond.kind = "bvsym" =>
              Len(ret.states) = DistinctTargets + 1
         /\ PoppedCond.kind = "bv" => Len(ret.states) = 1

C6_Witness ==
    /\ Emulated({"br_table"})
    /\ PoppedCond.kind = "bvsym"
    /\ DistinctTargets = 3
    /\ Len(ret.states) = 4

\* C7: br_if / if on a symbolic condition with exactly one feasible side
\* returns the input state itself, nothing copied, with the feasible side
\* added to its path constraint and the matching edge annotation.
C7_OneSidedBranch ==
    (/\ Emulated({"br_if", "if"})
     /\ IsSymbolic(PoppedCond)
     /\ FeasibleTrue # FeasibleFalse)
    => /\ ret = RetList(<<sid0>>)
       /\ Len(heap.states) = Len(prev.states)
       /\ Len(heap.stacks) = Len(prev.stacks)
       /\ Len(heap.solvers) = Len(prev.solvers)
       /\ heap.states[sid0] =
            [prev.states[sid0] EXCEPT !.edge_type =
                IF FeasibleTrue THEN CondTrue(0) ELSE CondFalse0]
       /\ AddedOne(sid0)
       /\ \A a \in Assignments :
            Holds(a, LastConstraint(sid0)) <=>
                IF FeasibleTrue THEN a[PoppedCond] # 0
                ELSE a[PoppedCond] = 0

C7_Witness ==
    /\ Emulated({"br_if", "if"})
    /\ IsSymbolic(PoppedCond)
    /\ ~FeasibleTrue /\ FeasibleFalse
    /\ ret = RetList(<<sid0>>)

\* C8: br_if / if on a concrete condition returns the one input state with
\* edge conditional_true_0 for nonzero / true and conditional_false_0 for
\* zero / false, the path constraint unchanged and the stack without the
\* condition.
C8_ConcreteBranch ==
    (Emulated({"br_if", "if"}) /\ ~IsSymbolic(PoppedCond))
    => /\ ret = RetList(<<sid0>>)
       /\ heap.states[sid0].edge_type =
            IF PoppedCond.id # 0 THEN CondTrue(0) ELSE CondFalse0
       /\ SolverOf(heap, sid0) = SolverOf(prev, sid0)
       /\ StackOf(heap, sid0) = ButLast(StackOf(prev, sid0), 1)
       /\ LocalOf(heap, sid0) = LocalOf(prev, sid0)

C8_Witness ==
    /\ Emulated({"br_if", "if"})
    /\ PoppedCond = BoolV(FALSE)
    /\ heap.states[sid0].edge_type = CondFalse0

\* the frame a live state holds for its i-th unreturned call, as it must be
ExpectedFrame(t, i) ==
    LET g == ghost[t].pre[i]
    IN [stack |-> ButLast(g.stack, Len(FuncProtos[g.f_offset].param_str)),
        local |-> g.local,
        func |-> g.func,
        ret |-> FuncProtos[g.f_offset].return_str # ""]

FramesIntact(t) ==
    /\ Len(CtxOf(heap, t)) = Len(ghost[t].pre)
    /\ \A i \in 1..Len(CtxOf(heap, t)) :
         LET fv == FrameView(heap, CtxOf(heap, t)[i])
         IN [stack |-> fv.stack, local |-> fv.local, func |-> fv.func,
             ret |-> fv.ret] = ExpectedFrame(t, i)

\* C9: an internal call pops exactly the callee's declared number of
\* parameters and pushes exactly one frame (caller, resume block, the
\* remaining stack, the pre-call locals, return flag); whatever is done
\* afterwards, every frame still holds the stack and locals it saved.
C9_FrameIsSnapshot ==
    /\ InternalCall =>
         LET N == Len(Callee.param_str)
             pre == StackOf(prev, sid0)
             ctx == CtxView(heap, sid0)
         IN /\ ret = RetList(<<sid0>>)
            /\ StackOf(heap, sid0) = ButLast(pre, N)
            /\ Len(ctx) = Len(CtxView(prev, sid0)) + 1
            /\ ButLast(ctx, 1) = CtxView(prev, sid0)
            /\ ctx[Len(ctx)] =
                 [func |-> prev.states[sid0].current_func_name,
                  bb |-> last.bb,
                  stack |-> ButLast(pre, N),
                  local |-> LocalOf(prev, sid0),
                  ret |-> (Callee.return_str # "")]
    /\ \A t \in live : FramesIntact(t)

\* inside a callee with parameters, a push or a local write has just been
\* made and the frame of the call is still on the context stack
C9_Witness ==
    /\ Emulated({"get_local", "set_local", "drop"})
    /\ sid0 \in live
    /\ Len(CtxOf(heap, sid0)) >= 1
    /\ Len(FuncProtos[ghost[sid0].pre[1].f_offset].param_str) >= 1
    /\ LocalOf(heap, sid0) # ghost[sid0].pre[1].local
    /\ StackOf(heap, sid0) #
         FrameView(heap, CtxOf(heap, sid0)[1]).stack

\* C10: the depth of a state's context stack is the number of internal
\* calls it made minus the number of frames it returned through, and a
\* return pops exactly the newest frame and restores the stack, locals and
\* function saved by the most recent call not yet returned.
C10_FramesLifo ==
    /\ \A t \in live :
         Len(CtxOf(heap, t)) = ghost[t].calls - ghost[t].rets
    /\ Returned =>
         /\ CtxView(heap, sid0) = ButLast(CtxView(prev, sid0), 1)
         /\ LocalOf(heap, sid0) = Snap.local
         /\ heap.states[sid0].current_func_name = Snap.func
         /\ StackOf(heap, sid0) =
              ButLast(Snap.stack, Len(SnapCallee.param_str))
                \o (IF SnapCallee.return_str # ""
                    THEN <<Top(prev, sid0)>> ELSE <<>>)

\* a return out of the inner of two nested calls whose frames differ
C10_Witness ==
    /\ Returned
    /\ Len(CtxOf(prev, sid0)) = 2
    /\ CtxView(prev, sid0)[1] # CtxView(prev, sid0)[2]
    /\ ghost[sid0].calls = 2 /\ ghost[sid0].rets = 1

\* C11: an exit-point nop raises the Success signal (exit code 0) exactly
\* when the context stack is empty, and then changes nothing; otherwise it
\* pops exactly one frame, and (a callee that returns a value having one on
\* its stack at its exit point) returns the state with the caller's saved
\* stack, locals and name restored and the callee's top value pushed on
\* the restored stack exactly when the frame expects a return value.
C11_ExitPoint ==
    Emulated({"nop_exit"}) =>
      LET ctx == CtxView(prev, sid0)
          fr == ctx[Len(ctx)]
          pre == StackOf(prev, sid0)
      IN /\ (ret = RetRaise("ProcSuccessTermination(0)")) <=> (ctx = <<>>)
         /\ ctx = <<>> => heap = prev
         /\ ctx # <<>> => CtxView(heap, sid0) = ButLast(ctx, 1)
         /\ (ctx # <<>> /\ (fr.ret => pre # <<>>)) =>
              /\ ret = RetList(<<sid0>>)
              /\ LocalOf(heap, sid0) = fr.local
              /\ heap.states[sid0].current_func_name = fr.func
              /\ StackOf(heap, sid0) =
                   fr.stack \o (IF fr.ret THEN <<pre[Len(pre)]>> ELSE <<>>)

\* a return through a frame that expects a value, into a caller whose
\* saved stack is not empty and whose locals the callee had overwritten
C11_Witness ==
    /\ Emulated({"nop_exit"})
    /\ Len(CtxOf(prev, sid0)) = 1
    /\ CtxView(prev, sid0)[1].ret
    /\ CtxView(prev, sid0)[1].stack # <<>>
    /\ LocalOf(prev, sid0) # CtxView(prev, sid0)[1].local
    /\ ret = RetList(<<sid0>>)
    /\ Len(StackOf(heap, sid0)) = Len(CtxView(prev, sid0)[1].stack) + 1

\* ------------------------------------------------------ dispatch of calls
LastName == FuncProtos[last.arg].name
\* the conditions of the dispatch rules (a) .. (d), each taken alone
IsHook == dsl_flag /\ StartsWithChecker(LastName)
IsLibrary == LastName \in MODELED_FUNCS[source_type]
IsWasi == LastName \in MODELED_FUNCS["wasi"]
IsTerminating == LastName \in TERMINATED_FUNCS

NoFrameChange ==
    /\ CtxView(heap, sid0) = CtxView(prev, sid0)
    /\ heap.states[sid0].current_func_name
         = prev.states[sid0].current_func_name
    /\ LocalOf(heap, sid0) = LocalOf(prev, sid0)

\* the effect of a library model: arguments consumed, result pushed
LibraryEffect ==
    /\ ret = RetList(<<sid0>>)
    /\ NoFrameChange
    /\ Len(StackOf(heap, sid0)) =
         Len(StackOf(prev, sid0)) - Len(Callee.param_str)
           + (IF Callee.return_str # "" THEN 1 ELSE 0)

FrameEffect ==
    /\ ret = RetList(<<sid0>>)
    /\ Len(CtxOf(heap, sid0)) = Len(CtxOf(prev, sid0)) + 1
    /\ heap.states[sid0].current_func_name = LastName

Failure == ret = RetRaise("ProcFailTermination(ASSERT_FAIL)")

InPlace ==
    /\ ret = RetList(<<sid0>>)
    /\ NoFrameChange

\* C13 (as claimed): a call of a callee whose name starts with "checker"
\* returns the input state and leaves context_stack, current_func_name
\* and local_var unchanged, whatever the configuration flags.
C13_HookWhateverFlags ==
    (Emulated({"call"}) /\ StartsWithChecker(LastName)) => InPlace

\* the name continues, after "checker", with "$" and an integer
HookNumbered(name) ==
    LET parts == SplitOn(Spelling(name), "$")
    IN Len(parts) >= 2 /\ IntLiteral(parts[2])

\* C13 (amended): with the DSL flag set, a call of a callee named
\* checker$<integer> returns the input state and leaves context_stack,
\* current_func_name, local_var and the operand stack unchanged.
C13_HookInPlace ==
    (/\ Emulated({"call"})
     /\ dsl_flag
     /\ StartsWithChecker(LastName)
     /\ HookNumbered(LastName))
    => (InPlace /\ StackOf(heap, sid0) = StackOf(prev, sid0))

\* checker$1 called with the DSL flag set, inside a callee, operands on
\* the stack
C13_Witness ==
    /\ Emulated({"call"})
    /\ dsl_flag
    /\ LastName = "checker$1"
    /\ StackOf(prev, sid0) # <<>>
    /\ Len(CtxOf(prev, sid0)) = 1
    /\ InPlace

\* C14: call_indirect on an index that is not a concrete bit-vector ends
\* in an error: no state is returned, no frame is pushed and no callee is
\* entered.
C14_SymbolicIndexFatal ==
    (Emulated({"call_indirect"}) /\ ~is_bv_value(PoppedCond)) =>
      /\ ret.kind = "raise"
      /\ ret.states = <<>>
      /\ NoFrameChange
      /\ heap.states[sid0].call_indirect_callee
           = prev.states[sid0].call_indirect_callee

\* call_indirect on a symbolic index with operands beneath it
C14_Witness ==
    /\ Emulated({"call_indirect"})
    /\ PoppedCond = X
    /\ Len(StackOf(prev, sid0)) >= 2
    /\ ret = RetRaise("AssertionError")

\* the callee call_indirect is to resolve for a concrete index
TableSlot == as_long(PoppedCond) - ElemOffset
SlotName == ElemIndexToFunc[TableSlot]
SlotOffsets == {i \in 1..Len(FuncProtos) : FuncProtos[i].name = SlotName}
\* an ordinary call of prototype i on the state with the index popped
AsCall(i) ==
    deal_with_call(PopN(prev, sid0, 1), sid0, i, last.bb, dsl_flag,
                   source_type)

\* C15: call_indirect on a concrete index k, the table based at o, enters
\* the function named by slot k - o exactly as a call of that function's
\* prototype does on the state with the index popped (same stack, locals,
\* context stack, function name and signal); a slot naming no prototype
\* is an error.
C15_IndirectAsCall ==
    (/\ Emulated({"call_indirect"})
     /\ is_bv_value(PoppedCond)
     /\ TableSlot \in DOMAIN ElemIndexToFunc)
    => /\ SlotOffsets = {} => (ret.kind = "raise" /\ NoFrameChange)
       /\ SlotOffsets # {} =>
            LET i == CHOOSE i \in SlotOffsets : \A j \in SlotOffsets : i <= j
            IN /\ ret = AsCall(i).ret
               /\ View(heap, sid0) = View(AsCall(i).heap, sid0)

\* an indirect call that entered a one-parameter function through a table
\* slot other than the index, the argument taken from beneath the index
C15_Witness ==
    /\ Emulated({"call_indirect"})
    /\ is_bv_value(PoppedCond)
    /\ as_long(PoppedCond) = ElemOffset
    /\ heap.states[sid0].current_func_name = "f1"
    /\ Len(CtxOf(heap, sid0)) = Len(CtxOf(prev, sid0)) + 1
    /\ LocalOf(heap, sid0)[0] = StackOf(prev, sid0)[Len(StackOf(prev, sid0)) - 1]

\* the stack of the emulated state before the instruction, n operands off
PrevStackLess(n) == ButLast(StackOf(prev, sid0), n)

\* C16: br_table on a concrete index i and a table of n entries returns
\* exactly one state, with the parent's path constraint, annotated
\* conditional_true_<entry i> when 0 <= i < n and conditional_false_0
\* otherwise; on any index br_table returns a state or raises an error.
C16_BrTableConcrete ==
    /\ (Emulated({"br_table"}) /\ is_bv_value(PoppedCond)) =>
         LET i == PoppedCond.id
             n == Len(last.tbl)
         IN /\ ret.kind = "list"
            /\ Len(ret.states) = 1
            /\ SolverOf(heap, ret.states[1]) = SolverOf(prev, sid0)
            /\ StackOf(heap, ret.states[1]) = PrevStackLess(1)
            /\ heap.states[ret.states[1]].edge_type =
                 (IF 0 <= i /\ i < n THEN CondTrue(last.tbl[i + 1])
                  ELSE CondFalse0)
    /\ Emulated({"br_table"}) =>
         (ret.kind = "raise" \/ (ret.kind = "list" /\ Len(ret.states) >= 1))

\* a concrete index inside the table, after a branch was taken
C16_Witness ==
    /\ Emulated({"br_table"})
    /\ PoppedCond = BV(0)
    /\ SolverOf(prev, sid0) # <<>>
    /\ Len(ret.states) = 1
    /\ heap.states[ret.states[1]].edge_type = CondTrue(1)

\* the operands select pops, in pop order
SelArg0 == StackOf(prev, sid0)[Len(StackOf(prev, sid0))]
SelArg1 == StackOf(prev, sid0)[Len(StackOf(prev, sid0)) - 1]
SelArg2 == StackOf(prev, sid0)[Len(StackOf(prev, sid0)) - 2]

\* C17: select with a concrete condition pops three operands and pushes
\* one of the two values: the operand popped second when the condition is
\* zero (9, 5, 0 leaves 5 on top), the operand popped third otherwise
\* (9, 5, nonzero leaves 9 on top); it returns the one input state, its
\* path constraint unchanged and its stack two shorter.
C17_SelectConcrete ==
    (Emulated({"select"}) /\ is_bv_value(SelArg0)) =>
        /\ ret.kind = "list"
        /\ ret.states = <<sid0>>
        /\ SolverOf(heap, sid0) = SolverOf(prev, sid0)
        /\ Len(StackOf(heap, sid0)) = Len(StackOf(prev, sid0)) - 2
        /\ StackOf(heap, sid0) =
             Append(PrevStackLess(3),
                    IF SelArg0.id = 0 THEN SelArg1 ELSE SelArg2)
        /\ (SelArg2 = BV(9) /\ SelArg1 = BV(5)) =>
             Top(heap, sid0) = (IF SelArg0 = BV(0) THEN BV(5) ELSE BV(9))

\* 9, 5 and the condition 0 were on the stack and 5 is on top afterwards
C17_Witness ==
    /\ Emulated({"select"})
    /\ SelArg2 = BV(9) /\ SelArg1 = BV(5) /\ SelArg0 = BV(0)
    /\ ret.kind = "list"
    /\ Top(heap, sid0) = BV(5)

\* the states emulate handed back, none when it returned no list
Successors == IF ret.kind = "list" THEN ret.states ELSE <<>>

\* the successors of select whose path constraint gained c
GainedBy(c) ==
    {k \in 1..Len(Successors) :
        SolverOf(heap, Successors[k]) = Append(SolverOf(prev, sid0), c)}

\* C18: select on a symbolic bit-vector condition c returns one successor
\* per feasible outcome, at most two: the one whose path constraint gained
\* (c == 0) has the operand popped second on top, the one whose path
\* constraint gained Not(c == 0) has the operand popped third on top, and
\* each stack is otherwise the parent's stack less the three operands.
C18_SelectSymbolic ==
    (Emulated({"select"}) /\ is_bv(SelArg0) /\ ~is_bv_value(SelArg0)) =>
        LET op == EqZero(SelArg0)
            zero == ~NoNeed(SolverOf(prev, sid0), op)
            nonzero == ~NoNeed(SolverOf(prev, sid0), Not(op))
        IN /\ ret.kind # "raise"
           /\ Len(Successors) =
                (IF zero THEN 1 ELSE 0) + (IF nonzero THEN 1 ELSE 0)
           /\ Cardinality(GainedBy(op)) = (IF zero THEN 1 ELSE 0)
           /\ Cardinality(GainedBy(Not(op))) = (IF nonzero THEN 1 ELSE 0)
           /\ \A k \in GainedBy(op) :
                StackOf(heap, Successors[k]) =
                    Append(PrevStackLess(3), SelArg1)
           /\ \A k \in GainedBy(Not(op)) :
                StackOf(heap, Successors[k]) =
                    Append(PrevStackLess(3), SelArg2)

\* select forked on a symbolic condition between two different operands
C18_Witness ==
    /\ Emulated({"select"})
    /\ SelArg0 = X
    /\ SelArg1 # SelArg2
    /\ ret.kind = "list"
    /\ Len(ret.states) = 2
    /\ Top(heap, ret.states[1]) = SelArg1
    /\ Top(heap, ret.states[2]) = SelArg2

\* select on a symbolic condition whose path constraint leaves one outcome
C18_OneSided ==
    /\ Emulated({"select"})
    /\ SelArg0 = X
    /\ ret.kind = "list"
    /\ Len(ret.states) = 1

\* C19: select whose popped condition is a boolean, which its type
\* assertion admits, is handled like br_if handles one (concretely true,
\* concretely false, symbolic) and returns successor state(s) with one of
\* the two value operands pushed, instead of failing.
C19_SelectOnBoolean ==
    (Emulated({"select"}) /\ is_bool(SelArg0)) =>
        /\ ret.kind = "list"
        /\ Len(ret.states) \in {1, 2}
        /\ \A k \in 1..Len(ret.states) :
             StackOf(heap, ret.states[k]) \in
                {Append(PrevStackLess(3), SelArg1),
                 Append(PrevStackLess(3), SelArg2)}

\* set_local i followed by get_local i, emulated on the state before
SetThenGet ==
    EmulateGetLocal(EmulateSetLocal(prev, sid0, last.arg).heap,
                    sid0, last.arg)

\* C20: tee_local i leaves the operand stack as it was and sets local i
\* to the stack top; it yields the stack and locals that set_local i
\* followed by get_local i yields, and neither changes the globals, the
\* path constraint or the context stack.
C20_TeeLocal ==
    Emulated({"tee_local"}) =>
        /\ ret = RetList(<<sid0>>)
        /\ StackOf(heap, sid0) = StackOf(prev, sid0)
        /\ LocalOf(heap, sid0) =
             DictSet(LocalOf(prev, sid0), last.arg, Top(prev, sid0))
        /\ StackOf(heap, sid0) = StackOf(SetThenGet.heap, sid0)
        /\ LocalOf(heap, sid0) = LocalOf(SetThenGet.heap, sid0)
        /\ ret = SetThenGet.ret
        /\ \A h \in {heap, SetThenGet.heap} :
             /\ h.states[sid0].globals = prev.states[sid0].globals
             /\ SolverOf(h, sid0) = SolverOf(prev, sid0)
             /\ CtxView(h, sid0) = CtxView(prev, sid0)
        /\ heap = SetThenGet.heap

\* tee_local gave a local a new value, the one still on top of the stack
C20_Witness ==
    /\ Emulated({"tee_local"})
    /\ ret.kind = "list"
    /\ LocalOf(heap, sid0) # LocalOf(prev, sid0)
    /\ Len(StackOf(heap, sid0)) >= 1
    /\ LocalOf(heap, sid0)[last.arg] = Top(heap, sid0)

IsPrefix(s, t) == Len(s) <= Len(t) /\ SubSeq(t, 1, Len(s)) = s

\* the instructions that may extend a path constraint
Branching == {"br_if", "if", "select", "br_table"}

\* C26: the path constraint of a state only grows: no instruction removes
\* or replaces a constraint, only br_if/if/select/br_table on a symbolic
\* operand add one, each returned state gains at most one constraint, and
\* internal call and return leave the path constraint unchanged.
C26_SolverGrows ==
    /\ \A sid \in 1..Len(prev.states) :
          /\ IsPrefix(SolverOf(prev, sid), SolverOf(heap, sid))
          /\ sid # sid0 => SolverOf(heap, sid) = SolverOf(prev, sid)
    /\ sid0 \in 1..Len(prev.states) =>
          /\ \A k \in 1..Len(ret.states) :
                /\ IsPrefix(SolverOf(prev, sid0), SolverOf(heap, ret.states[k]))
                /\ Len(SolverOf(heap, ret.states[k])) <=
                      Len(SolverOf(prev, sid0)) + 1
          /\ (\E k \in 1..Len(ret.states) :
                 SolverOf(heap, ret.states[k]) # SolverOf(prev, sid0)) =>
                    /\ last.instr \in Branching
                    /\ IsSymbolic(PoppedCond)
          /\ last.instr \in {"call", "nop", "nop_exit"} =>
                \A k \in 1..Len(ret.states) :
                    SolverOf(heap, ret.states[k]) = SolverOf(prev, sid0)

\* a second constraint was added behind the first
C26_Witness ==
    /\ Emulated(Branching)
    /\ SolverOf(prev, sid0) # <<>>
    /\ IsSymbolic(PoppedCond)
    /\ ret.kind = "list"
    /\ \E k \in 1..Len(ret.states) :
          /\ Len(SolverOf(heap, ret.states[k])) = 2
          /\ IsPrefix(SolverOf(prev, sid0), SolverOf(heap, ret.states[k]))

\* the index values a br_table successor was given, by its annotation
GroupOf(sid) ==
    LET e == heap.states[sid].edge_type
    IN IF e.kind = "conditional_true"
       THEN {v \in BVDom : \E j \in 1..Len(last.tbl) :
                               last.tbl[j] = e.target /\ v = j - 1}
       ELSE {v \in BVDom : v < 0 \/ v >= Len(last.tbl)}

C28_SkippedUnchanged ==
    Emulated(skip_command \cup term_command \cup {"nop"}) =>
        /\ ret = RetList(<<sid0>>)
        /\ StackOf(heap, sid0) = StackOf(prev, sid0)
        /\ LocalOf(heap, sid0) = LocalOf(prev, sid0)
        /\ SolverOf(heap, sid0) = SolverOf(prev, sid0)
        /\ CtxView(heap, sid0) = CtxView(prev, sid0)
        /\ heap.states[sid0].current_func_name =
              prev.states[sid0].current_func_name
        /\ heap = prev

\* a return instruction inside a callee: the caller's frame stays
C28_Witness ==
    /\ Emulated({"return"})
    /\ CtxOf(prev, sid0) # <<>>
    /\ ret = RetList(<<sid0>>)
    /\ Len(CtxOf(heap, sid0)) = Len(CtxOf(prev, sid0))

\* a return instruction in the entry function: no termination is raised
C28_ReturnAtEntry ==
    /\ Emulated({"return"})
    /\ CtxOf(prev, sid0) = <<>>
    /\ ret = RetList(<<sid0>>)

\* the operand stack store_context leaves for the same parameter string
AfterStoreContext ==
    StackOf(store_context(prev, sid0, ParamStrs[last.arg], "", "f0",
                          "block_a"), sid0)

\* C30: _extract_params removes from the operand stack exactly as many
\* operands as store_context removes for the same parameter string, the
\* empty one included (no operand), and returns them in pop order, a
\* constant bit-vector as its integer value and a symbolic value as it is.
C30_SamePopCount ==
    (/\ Emulated({"_extract_params"})
     /\ Len(StackOf(prev, sid0)) >= NumArg(ParamStrs[last.arg])) =>
        LET pre == StackOf(prev, sid0)
            n == Len(pre) - Len(AfterStoreContext)
        IN /\ ret.kind = "params"
           /\ StackOf(heap, sid0) = AfterStoreContext
           /\ Len(ret.params) = n
           /\ \A j \in 1..n :
                 ret.params[j] = Concretize(pre[Len(pre) - (j - 1)])

\* the signed number a 32-bit constant stands for
Signed32(v) ==
    LET l == v.limbs
        top == IF l[4] >= 128 THEN l[4] - 256 ELSE l[4]
    IN l[1] + 256 * l[2] + 65536 * l[3] + 16777216 * top

\* the operands of the last binary instruction, in pop order
ArithArg1 == StackOf(prev, sid0)[Len(StackOf(prev, sid0))]
ArithArg2 == StackOf(prev, sid0)[Len(StackOf(prev, sid0)) - 1]

\* the last instruction was instr_type.op for one of the ops
EmulatedArith(instr_type, ops) ==
    Emulated({InstrName(instr_type, op) : op \in ops})

\* truncating division and its remainder on numbers
Abs(n) == IF n < 0 THEN 0 - n ELSE n
TruncDiv(a, b) ==
    IF (a < 0) # (b < 0) THEN 0 - (Abs(a) \div Abs(b))
    ELSE Abs(a) \div Abs(b)
TruncRem(a, b) == a - b * TruncDiv(a, b)

\* 32-bit constants small enough for their difference to be a number
Small(v) ==
    /\ v.kind = "bvval"
    /\ v.size = 32
    /\ v # Min32

\* C21: a binary integer instruction computes LHS OP RHS with RHS the
\* operand popped first and LHS the operand popped second: with a pushed
\* and then b, sub, div_s, div_u, rem_s, rem_u leave a OP b on top, never
\* b OP a; div_s truncates toward zero (7 div_s 3 = 2, -7 div_s 2 = -3)
\* and rem_s takes the sign of the dividend.
C21_OperandOrder ==
    \A instr_type \in IntTypes, op \in IntBinaryOps :
        (/\ EmulatedArith(instr_type, {op})
         /\ is_sized_bv(ArithArg1) /\ is_sized_bv(ArithArg2)
         /\ ArithArg1.size = helper_map[instr_type]
         /\ ArithArg2.size = helper_map[instr_type]) =>
            LET a == ArithArg2
                b == ArithArg1
                r == Top(heap, sid0)
            IN /\ ret = RetList(<<sid0>>)
               /\ StackOf(heap, sid0) = Append(PrevStackLess(2), r)
               /\ r = BvApply(IntBinary[op], a, b)
               /\ (Small(a) /\ Small(b)) =>
                    LET x == Signed32(a)
                        y == Signed32(b)
                    IN /\ op = "sub" => Signed32(r) = x - y
                       /\ (op = "div_s" /\ y # 0) =>
                            Signed32(r) = TruncDiv(x, y)
                       /\ (op = "rem_s" /\ y # 0) =>
                            /\ Signed32(r) = TruncRem(x, y)
                            /\ Signed32(r) # 0 =>
                                 ((Signed32(r) < 0) <=> (x < 0))
                       /\ (op = "div_u" /\ x >= 0 /\ y > 0) =>
                            Signed32(r) = x \div y
                       /\ (op = "rem_u" /\ x >= 0 /\ y > 0) =>
                            Signed32(r) = x % y
               /\ (a.kind # "bvval" \/ b.kind # "bvval") =>
                    /\ r.kind = "bvterm"
                    /\ r.args = <<a, b>>

\* -7 was pushed, then 2, and div_s left -3
C21_Witness ==
    /\ Emulated({"i32.div_s"})
    /\ ArithArg2 = BitVecVal(-7, 32)
    /\ ArithArg1 = BitVecVal(2, 32)
    /\ ret.kind = "list"
    /\ Top(heap, sid0) = BitVecVal(-3, 32)

\* 7 was pushed, then 3, and div_s left 2
C21_SevenByThree ==
    /\ Emulated({"i32.div_s"})
    /\ ArithArg2 = BitVecVal(7, 32)
    /\ ArithArg1 = BitVecVal(3, 32)
    /\ Top(heap, sid0) = BitVecVal(2, 32)

\* x + y, x - y and x * y modulo 2^32 on the signed numbers of 32-bit
\* constants, written so that no intermediate value leaves 32 bits
WrapAdd(x, y) ==
    LET max == 2147483647
        down(n) == (n - max) - 1
        up(n) == (n + max) + 1
    IN IF x >= 0 /\ y >= 0 /\ x > max - y THEN down(x) + down(y)
       ELSE IF x < 0 /\ y < 0 /\ x < ((0 - max) - 1) - y THEN up(x) + up(y)
       ELSE x + y
WrapNeg(y) == IF y = (0 - 2147483647) - 1 THEN y ELSE 0 - y
WrapSub(x, y) == WrapAdd(x, WrapNeg(y))
IsMin(x) == x = (0 - 2147483647) - 1
MulKnown(x, y) ==
    \/ IsMin(x)
    \/ IsMin(y)
    \/ Abs(x) <= 46340 /\ Abs(y) <= 46340
WrapMul(x, y) ==
    IF IsMin(x) THEN (IF y % 2 = 1 THEN x ELSE 0)
    ELSE IF IsMin(y) THEN (IF x % 2 = 1 THEN y ELSE 0)
    ELSE x * y
WrapOf(op, x, y) ==
    CASE op = "add" -> WrapAdd(x, y)
      [] op = "sub" -> WrapSub(x, y)
      [] op = "mul" -> WrapMul(x, y)

\* a 64-bit constant that is the sign extension of its low half, and one
\* that is a multiple of 2^32
Fits32(v) ==
    /\ v.kind = "bvval"
    /\ v.size = 64
    /\ \A i \in 5..8 : v.limbs[i] = (IF v.limbs[4] >= 128 THEN 255 ELSE 0)
HighOnly(v) ==
    /\ v.kind = "bvval"
    /\ v.size = 64
    /\ \A i \in 1..4 : v.limbs[i] = 0
High32(v) == Signed32([limbs |-> SubSeq(v.limbs, 5, 8)])

\* an operand an instruction of that type accepts: of its width, or a
\* boolean
Accepted(v, instr_type) ==
    \/ is_bool(v)
    \/ is_sized_bv(v) /\ v.size = helper_map[instr_type]

\* a value of exactly that width
HasWidth(v, size) ==
    /\ is_sized_bv(v)
    /\ v.size = size
    /\ v.kind = "bvval" =>
          /\ Len(v.limbs) = NumBytes(size)
          /\ \A i \in 1..Len(v.limbs) : v.limbs[i] \in 0..255

\* C22: an integer arithmetic instruction of width W pushes a W-bit value
\* whatever its operands: add, sub and mul give the mathematical result
\* modulo 2^W and signal nothing, clz, ctz and popcnt give a W-bit constant;
\* no value of another width is pushed.
C22_WidthAndWrap ==
    \A instr_type \in IntTypes, op \in IntUnaryOps \cup IntBinaryOps :
        EmulatedArith(instr_type, {op}) =>
            LET r == Top(heap, sid0)
                popped == IF op \in IntUnaryOps THEN 1 ELSE 2
            IN /\ ret.kind = "list" =>
                    /\ ret = RetList(<<sid0>>)
                    /\ HasWidth(r, helper_map[instr_type])
                    /\ StackOf(heap, sid0) = Append(PrevStackLess(popped), r)
               /\ ret.kind # "list" =>
                    StackOf(heap, sid0) = PrevStackLess(popped)
               /\ op \in IntUnaryOps => ret.kind = "list"
               /\ (/\ op \in IntBinaryOps
                   /\ Accepted(ArithArg1, instr_type)
                   /\ Accepted(ArithArg2, instr_type)) => ret.kind = "list"
               /\ (/\ op \in {"add", "sub", "mul"}
                   /\ ret.kind = "list"
                   /\ ArithArg1.kind = "bvval"
                   /\ ArithArg2.kind = "bvval") =>
                    LET a == ArithArg2
                        b == ArithArg1
                        x == Signed32(a)
                        y == Signed32(b)
                    IN /\ r.kind = "bvval"
                       /\ (instr_type = "i32"
                              /\ (op = "mul" => MulKnown(x, y))) =>
                            Signed32(r) = WrapOf(op, x, y)
                       /\ (Fits32(a) /\ Fits32(b) /\ Small(Val(32, a.limbs))
                              /\ Small(Val(32, b.limbs))) =>
                            /\ Fits32(r)
                            /\ Signed32(r) = WrapOf(op, x, y)
                       /\ (HighOnly(a) /\ HighOnly(b)) =>
                            /\ HighOnly(r)
                            /\ High32(r) =
                                 (IF op = "mul" THEN 0
                                  ELSE WrapOf(op, High32(a), High32(b)))

\* 0x80000000 + 0x80000000 wrapped to 0 in 32 bits and nothing was raised
C22_Witness ==
    /\ Emulated({"i32.add"})
    /\ ArithArg1 = Min32
    /\ ArithArg2 = Min32
    /\ ret = RetList(<<sid0>>)
    /\ Top(heap, sid0) = BitVecVal(0, 32)

\* 2^32 * 2^32 wrapped to 0 in 64 bits
C22_Wrap64 ==
    /\ Emulated({"i64.mul"})
    /\ ArithArg1 = Two32
    /\ ArithArg2 = Two32
    /\ Top(heap, sid0) = BitVecVal(0, 64)

\* a boolean operand of a 64-bit instruction became a 64-bit symbol
C22_BooleanOperand ==
    /\ Emulated({"i64.sub"})
    /\ ArithArg1 = P
    /\ ArithArg2 = BitVecVal(3, 64)
    /\ ret.kind = "list"
    /\ Top(heap, sid0).size = 64

\* the all-zero operand of that type
IsZeroOf(v, instr_type) ==
    /\ v.kind = "bvval"
    /\ v.size = helper_map[instr_type]
    /\ \A i \in 1..Len(v.limbs) : v.limbs[i] = 0

\* the W-bit constant whose lowest byte is n and whose other bytes are zero
ByteConst(v, n, size) ==
    /\ v.kind = "bvval"
    /\ v.size = size
    /\ Len(v.limbs) = size \div 8
    /\ v.limbs[1] = n
    /\ \A i \in 2..Len(v.limbs) : v.limbs[i] = 0

\* C23: on the all-zero operand i32.clz and i32.ctz push 32, i64.clz and
\* i64.ctz push 64 and popcnt pushes 0, each a constant of the instruction's
\* width, and exactly one operand is popped.
C23_ZeroOperand ==
    \A instr_type \in IntTypes, op \in IntUnaryOps :
        (/\ EmulatedArith(instr_type, {op})
         /\ IsZeroOf(ArithArg1, instr_type)) =>
            LET r == Top(heap, sid0)
                W == IF instr_type = "i32" THEN 32 ELSE 64
            IN /\ ret = RetList(<<sid0>>)
               /\ StackOf(heap, sid0) = Append(PrevStackLess(1), r)
               /\ op \in {"clz", "ctz"} => ByteConst(r, W, W)
               /\ op = "popcnt" => ByteConst(r, 0, W)

\* i64.ctz on the 64-bit zero left 64
C23_Witness ==
    /\ Emulated({"i64.ctz"})
    /\ ArithArg1 = BitVecVal(0, 64)
    /\ ret.kind = "list"
    /\ Top(heap, sid0) = Val(64, <<64, 0, 0, 0, 0, 0, 0, 0>>)

C29_SymbolicOperand ==
    /\ Emulated({"i64.clz"})
    /\ ArithArg1 = X64
    /\ Top(heap, sid0) = BitVecVal(64, 64)

\* a float constant of the shape of that type
IsFloatOf(v, instr_type) ==
    /\ v.kind = "fpval"
    /\ HasShape(v, helper_map[instr_type])

\* C25: f32.copysign and f64.copysign pop two float operands and push one
\* result for every combination of signs: the first-popped operand with
\* its sign flipped when the signs differ, the first-popped operand itself
\* when they agree, for both widths alike.
C25_Copysign ==
    \A instr_type \in FloatTypes :
        (/\ EmulatedArith(instr_type, {"copysign"})
         /\ IsFloatOf(ArithArg1, instr_type)
         /\ IsFloatOf(ArithArg2, instr_type)) =>
            /\ ret = RetList(<<sid0>>)
            /\ StackOf(heap, sid0) =
                  Append(PrevStackLess(2),
                         IF ArithArg1.neg # ArithArg2.neg
                         THEN [ArithArg1 EXCEPT !.neg = ~ArithArg1.neg]
                         ELSE ArithArg1)

\* what the code does for f32 operands of different signs: the claimed
\* result
C25_F32SignsDiffer ==
    (/\ Emulated({"f32.copysign"})
     /\ IsFloatOf(ArithArg1, "f32")
     /\ IsFloatOf(ArithArg2, "f32")
     /\ ArithArg1.neg # ArithArg2.neg) =>
        /\ ret = RetList(<<sid0>>)
        /\ StackOf(heap, sid0) =
              Append(PrevStackLess(2),
                     [ArithArg1 EXCEPT !.neg = ~ArithArg1.neg])

\* what the code does otherwise: both operands popped, nothing pushed, no
\* state returned
C25_Unbound ==
    \A instr_type \in FloatTypes :
        (/\ EmulatedArith(instr_type, {"copysign"})
         /\ IsFloatOf(ArithArg1, instr_type)
         /\ IsFloatOf(ArithArg2, instr_type)
         /\ instr_type = "f64" \/ ArithArg1.neg = ArithArg2.neg) =>
            /\ ret = RetRaise("UnboundLocalError")
            /\ StackOf(heap, sid0) = PrevStackLess(2)

\* the operand of the last conversion
ConvArg == StackOf(prev, sid0)[Len(StackOf(prev, sid0))]

\* the operand is of the sort of that type, the value is of that type
SortOf(v, t) == IF IsFloatType(t) THEN is_fp(v) ELSE is_sized_bv(v)
IsOfType(v, t) ==
    /\ SortOf(v, t)
    /\ IF IsFloatType(t)
       THEN <<v.ebits, v.sbits>> = conv_shape[t]
       ELSE /\ v.size = conv_shape[t]
            /\ v.kind = "bvval" => Len(v.limbs) * 8 = conv_shape[t]

\* C24: a conversion whose operand has another width (another float shape)
\* than the opcode's source type fails with an assertion failure, pushing
\* nothing and returning no state; a result that is pushed has exactly the
\* opcode's target width or shape.
C24_ShapeChecked ==
    \A op \in ConvOps :
        Emulated({ConvName(op)}) =>
            /\ (SortOf(ConvArg, op[3]) /\ ~IsOfType(ConvArg, op[3])) =>
                  /\ ret = RetRaise("AssertionError")
                  /\ StackOf(heap, sid0) = PrevStackLess(1)
            /\ IsOfType(ConvArg, op[3]) => ret.kind = "list"
            /\ ret.kind = "list" =>
                  /\ ret = RetList(<<sid0>>)
                  /\ IsOfType(ConvArg, op[3])
                  /\ IsOfType(Top(heap, sid0), op[1])
                  /\ ButLast(StackOf(heap, sid0), 1) = PrevStackLess(1)
            /\ ret.kind # "list" => StackOf(heap, sid0) = PrevStackLess(1)

\* i32.wrap/i64 on a 32-bit operand failed its assertion
C24_Witness ==
    /\ Emulated({"i32.wrap/i64"})
    /\ ConvArg = BitVecVal(7, 32)
    /\ ret = RetRaise("AssertionError")
    /\ StackOf(heap, sid0) = PrevStackLess(1)

\* f64.promote/f32 on an f64 operand failed its assertion
C24_FloatShape ==
    /\ Emulated({"f64.promote/f32"})
    /\ ConvArg = FPVal(helper_map["f64"], TRUE, 2)
    /\ ret = RetRaise("AssertionError")

\* i32.wrap/i64 kept the low half of 0x1FFFFFFFD: -3 in 32 bits
C24_Wrapped ==
    /\ Emulated({"i32.wrap/i64"})
    /\ ConvArg = High64
    /\ ret.kind = "list"
    /\ Top(heap, sid0) = BitVecVal(0 - 3, 32)

\* i64.extend_s/i32 on -7 left the 64-bit -7, i32.extend_s/i8 the 32-bit -7
C24_Extended ==
    \/ /\ Emulated({"i64.extend_s/i32"})
       /\ ConvArg = BitVecVal(0 - 7, 32)
       /\ Top(heap, sid0) = BitVecVal(0 - 7, 64)
    \/ /\ Emulated({"i32.extend_s/i8"})
       /\ ConvArg = BitVecVal(0 - 7, 8)
       /\ Top(heap, sid0) = BitVecVal(0 - 7, 32)

====
